---- MODULE Spec2Model ----
(***************************************************************************)
(* Model of MTG_Collector: main.process_append with                        *)
(* scryfall_drive_db.prefetch.prefetch_cards / _fetch_one and              *)
(* scryfall_drive_db.db_manager.DBManager.add_entries (mode "append"),     *)
(* main.process_remove with DBManager.remove_first_matching (mode          *)
(* "remove"), scripts.update_prices.RateLimiter (LimiterSpec),             *)
(* scryfall_drive_db.scryfall_client.ScryfallClient.get_card (ClientSpec), *)
(* scripts.update_prices.run_update (UpdateSpec) and prefetch_cards under  *)
(* fair scheduling of its threads (PrefetchSpec).                          *)
(*                                                                         *)
(* Conventions.  A Python str is a sequence of one-character strings       *)
(* (<<"z", "1">>), so that strip(), lower() and float() are computed and   *)
(* not assumed.  Python's None is the sentinel None below.  A float is     *)
(* held in tenths (1.5 is 15): the model is exact to one decimal place.    *)
(* The fields src and unit of a draft or a stored row are history          *)
(* annotations (which CSV row and which unit of its quantity produced the  *)
(* row); the program does not store them and no action reads them.         *)
(***************************************************************************)
EXTENDS Integers, Sequences, FiniteSets, TLC

\* ------------------------------------------------------------------ bounds

\* longest CSV file, in data rows
MaxRows == 2
\* largest --chunk-size
MaxChunk == 2
\* largest --prefetch-workers
MaxWorkers == 2
\* most threads that share one RateLimiter
MaxCallers == 2
\* most wait() calls one thread makes
MaxCalls == 2
\* largest max_retries of a ScryfallClient
MaxClientRetries == 3
\* largest min_interval, in clock ticks
MaxInterval == 2
\* clock ticks a RateLimiter run is followed for
MaxTicks == 4

\* ----------------------------------------------------------- Python values

None == <<"None">>

\* Python truthiness of an Optional[str]
Truthy(s) == s # None /\ s # <<>>

\* `a or b`
Or(a, b) == IF Truthy(a) THEN a ELSE b

Max(a, b) == IF a >= b THEN a ELSE b

RECURSIVE lstrip(_)
lstrip(s) == IF s # <<>> /\ Head(s) = " " THEN lstrip(Tail(s)) ELSE s

RECURSIVE rstrip(_)
rstrip(s) ==
    IF s # <<>> /\ s[Len(s)] = " " THEN rstrip(SubSeq(s, 1, Len(s) - 1)) ELSE s

\* str.strip()
strip(s) == rstrip(lstrip(s))

UpperChars == <<"F", "O", "I", "L", "E", "T", "C", "H", "D">>
LowerChars == <<"f", "o", "i", "l", "e", "t", "c", "h", "d">>

\* str.lower()
lower(s) ==
    [i \in 1..Len(s) |->
        IF \E j \in 1..Len(UpperChars) : UpperChars[j] = s[i]
        THEN LowerChars[CHOOSE j \in 1..Len(UpperChars) : UpperChars[j] = s[i]]
        ELSE s[i]]

DigitChars == <<"0", "1", "2", "3", "4", "5", "6", "7", "8", "9">>

IsDigit(c) == \E i \in 1..Len(DigitChars) : DigitChars[i] = c

DigitVal(c) == (CHOOSE i \in 1..Len(DigitChars) : DigitChars[i] = c) - 1

RECURSIVE NumVal(_)
NumVal(s) ==
    IF s = <<>> THEN 0
    ELSE NumVal(SubSeq(s, 1, Len(s) - 1)) * 10 + DigitVal(s[Len(s)])

\* float(v): surrounding blanks, an optional sign, then digits with at most
\* one point and at least one digit, or one of the words inf, infinity and nan
\* in any case (finite = FALSE); anything else raises ValueError (ok = FALSE).
\* Exponents and digit-group underscores are left out: no input of the model
\* has them.
float(v) ==
    LET s == strip(v)
        signed == s # <<>> /\ Head(s) \in {"-", "+"}
        body == IF signed THEN Tail(s) ELSE s
        dots == {i \in 1..Len(body) : body[i] = "."}
        dot == IF dots = {} THEN Len(body) + 1 ELSE CHOOSE i \in dots : TRUE
        ip == SubSeq(body, 1, dot - 1)
        fp == SubSeq(body, dot + 1, Len(body))
        wellformed ==
            /\ Cardinality(dots) <= 1
            /\ Len(ip) + Len(fp) > 0
            /\ \A i \in 1..Len(ip) : IsDigit(ip[i])
            /\ \A i \in 1..Len(fp) : IsDigit(fp[i])
        word == lower(body) \in {<<"i", "n", "f">>, <<"n", "a", "n">>,
                                 <<"i", "n", "f", "i", "n", "i", "t", "y">>}
        mag == NumVal(ip) * 10 + (IF fp = <<>> THEN 0 ELSE DigitVal(fp[1]))
    IN  IF wellformed
        THEN [ok |-> TRUE, finite |-> TRUE,
              tenths |-> IF signed /\ Head(s) = "-" THEN 0 - mag ELSE mag]
        ELSE IF word THEN [ok |-> TRUE, finite |-> FALSE, tenths |-> 0]
        ELSE [ok |-> FALSE, finite |-> FALSE, tenths |-> 0]

\* mutant: rounds to the nearest integer
int_rounded(tenths) == (tenths + 5) \div 10

\* int(x) of a float: truncation toward zero
int(tenths) == IF tenths >= 0 THEN tenths \div 10 ELSE 0 - ((0 - tenths) \div 10)

\* int(float(v)) raises ValueError when float does, OverflowError on an
\* infinity and ValueError on a nan: `except Exception: return 1`
parse_quantity(value) ==
    IF value = None THEN 1
    ELSE LET v == strip(value) IN
         IF v = <<>> THEN 1
         ELSE LET f == float(v) IN
              IF ~f.ok \/ ~f.finite THEN 1 ELSE Max(int(f.tenths), 0)

\* a nullable REAL column / Optional[float]
NullPrice == [null |-> TRUE, tenths |-> 0]
Price(t) == [null |-> FALSE, tenths |-> t]

\* ----------------------------------------------------------------- inputs

\* One CSV data row after column resolution: what row.get(<column>) gives for
\* the five resolved columns (None when the row has no such field).
CsvRow(s, n, l, f, q) == [set |-> s, num |-> n, lang |-> l, foil |-> f, qty |-> q]

RowTemplates ==
    { CsvRow(<<"z">>, <<"1">>, None, None, <<"2">>),
      CsvRow(<<" ", "z">>, <<"1", " ">>, <<>>, <<" ", "F", "o", "i", "l">>, <<"x">>),
      CsvRow(<<"k">>, <<"7">>, <<"j">>, <<"e", "t", "c", "h", "e", "d">>, <<"1", ".", "9">>),
      CsvRow(<<>>, <<"1">>, <<>>, <<>>, <<"3">>),
      CsvRow(<<" ">>, <<"1">>, <<>>, <<>>, None),
      CsvRow(<<"z">>, <<"1">>, <<" ">>, None, <<"-", "1">>) }

\* the CSV rows of the remove runs
RemoveTemplates ==
    { CsvRow(<<"z">>, <<"1">>, None, None, <<"3">>),
      CsvRow(<<" ", "z">>, <<"1", " ">>, <<" ">>, None, <<" ", "2", ".", "7">>),
      CsvRow(<<"k">>, <<"7">>, <<"j">>, None, <<" ">>),
      CsvRow(<<>>, <<"1">>, <<>>, None, <<"2">>),
      CsvRow(<<"z">>, <<"1">>, None, None, <<"0">>),
      CsvRow(<<"k">>, <<"7">>, <<"j">>, None, <<"-", "1", ".", "5">>),
      CsvRow(<<"z">>, <<"1">>, None, None, <<"-", "I", "n", "f">>) }

RECURSIVE SeqsUpTo(_, _)
SeqsUpTo(S, n) ==
    IF n = 0 THEN {<<>>}
    ELSE LET shorter == SeqsUpTo(S, n - 1)
         IN  shorter \cup {Append(q, x) : q \in shorter, x \in S}

\* ----------------------------------------------------------- remote lookup

\* prefetch_cards(..., max_retries: int = 3, ...); process_append never
\* passes another value.
max_retries == 3

\* --location default
default_location == "bulk"

\* a cache value / a lookup result that is None
NoneJs == [none |-> TRUE]

\* The JSON the card-data API holds for a printing.  Prices are strings or
\* null, as the API sends them: a missing price (null), an empty one, one
\* that is no number ("x") and one with a blank before the digits all occur.
Card(key) ==
    IF key[1] = <<"z">>
    THEN [none |-> FALSE, name |-> <<"Z">>, color_identity |-> <<"W", "U">>,
          prices |-> [usd |-> <<"1", ".", "5">>, usd_foil |-> <<" ", "7">>,
                      usd_etched |-> None]]
    ELSE IF key[1] = <<"k">>
    THEN [none |-> FALSE, name |-> <<"K">>, color_identity |-> <<>>,
          prices |-> [usd |-> <<>>, usd_foil |-> <<"2", ".", "0">>,
                      usd_etched |-> <<"x">>]]
    ELSE [none |-> FALSE, name |-> <<"K">>, color_identity |-> <<>>,
          prices |-> [usd |-> None, usd_foil |-> <<>>,
                      usd_etched |-> <<"n", "u", "l", "l">>]]

\* mutant: the finish is compared as the CSV holds it
pick_price_untrimmed(json, foil_value) ==
    LET prices == json.prices
        fv == Or(foil_value, <<"n", "o", "r", "m", "a", "l">>)
        price == IF fv = <<"f", "o", "i", "l">> THEN prices.usd_foil
                 ELSE IF fv = <<"e", "t", "c", "h", "e", "d">> THEN prices.usd_etched
                 ELSE prices.usd
    IN  IF price \in {None, <<>>, <<"n", "u", "l", "l">>} THEN NullPrice
        ELSE IF float(price).ok THEN Price(float(price).tenths) ELSE NullPrice

pick_price_from_json(json, foil_value) ==
    LET prices == json.prices
        fv == lower(strip(Or(foil_value, <<"n", "o", "r", "m", "a", "l">>)))
        price == IF fv = <<"f", "o", "i", "l">> THEN prices.usd_foil
                 ELSE IF fv = <<"e", "t", "c", "h", "e", "d">> THEN prices.usd_etched
                 ELSE prices.usd
    IN  IF price \in {None, <<>>, <<"n", "u", "l", "l">>} THEN NullPrice
        ELSE IF float(price).ok THEN Price(float(price).tenths) ELSE NullPrice

\* ------------------------------------------------------------------- keys

\* key = (set_code.strip(), collector_number.strip(), (lang or "").strip())
row_key(cr) == <<strip(cr.set), strip(cr.num), strip(Or(cr.lang, <<>>))>>

\* `if not sc or not cn` / `if not set_code or not collector_number`
missing_identity(cr) == ~Truthy(cr.set) \/ ~Truthy(cr.num)

\* `key not in seen` of process_append
not_seen(key, acc) == \A i \in 1..Len(acc) : acc[i] # key

RECURSIVE build_unique_keys(_, _)
build_unique_keys(rs, acc) ==
    IF rs = <<>> THEN acc
    ELSE LET cr == Head(rs) IN
         IF missing_identity(cr) THEN build_unique_keys(Tail(rs), acc)
         ELSE IF not_seen(row_key(cr), acc)
              THEN build_unique_keys(Tail(rs), Append(acc, row_key(cr)))
              ELSE build_unique_keys(Tail(rs), acc)

\* norm = (str(k[0]).strip(), str(k[1]).strip(), (k[2] or "").strip())
normalize(k) == <<strip(k[1]), strip(k[2]), strip(Or(k[3], <<>>))>>

\* `norm not in seen` of prefetch_cards
norm_not_seen(norm, acc) == \A i \in 1..Len(acc) : acc[i] # norm

RECURSIVE prefetch_unique_keys(_, _)
prefetch_unique_keys(keys, acc) ==
    IF keys = <<>> THEN acc
    ELSE IF norm_not_seen(normalize(Head(keys)), acc)
         THEN prefetch_unique_keys(Tail(keys), Append(acc, normalize(Head(keys))))
         ELSE prefetch_unique_keys(Tail(keys), acc)

RECURSIVE sum_quantities(_)
sum_quantities(rs) ==
    IF rs = <<>> THEN 0
    ELSE Max(parse_quantity(Head(rs).qty), 0) + sum_quantities(Tail(rs))

\* cache.get(key)
cache_get(c, key) == IF key \in DOMAIN c THEN c[key] ELSE NoneJs

\* cache[key] = js
cache_put(c, key, js) ==
    [k \in DOMAIN c \cup {key} |-> IF k = key THEN js ELSE c[k]]

\* ------------------------------------------------------------- _fetch_one

\* A submitted _fetch_one.  attempt is its local; ncalls counts its get_card
\* calls while it runs, and sleep is the multiple of backoff it slept in the
\* last turn of its loop (0 when that turn returned without sleeping).
\* When it returns its locals are gone and the future holds the result js.
NewTask(key) ==
    [key |-> key, st |-> "queued", attempt |-> 0, ncalls |-> 0, sleep |-> 0,
     js |-> NoneJs]

Finished(t, js) ==
    [key |-> t.key, st |-> "done", attempt |-> 0, ncalls |-> 0, sleep |-> 0,
     js |-> js]

\* mutant: gives up one attempt early
exhausted_early(attempt) == attempt >= max_retries

\* `if attempt > max_retries`
exhausted(attempt) == attempt > max_retries

\* mutant: the loop goes on after a call that returned
fetch_returned_no_return(t) == [t EXCEPT !.ncalls = @ + 1]

\* get_card returned: `return key, js`
fetch_returned(t) == Finished(t, Card(t.key))

\* mutant: sleeps before it looks whether the retries are used up
fetch_raised_sleeps_first(t) ==
    LET attempt == t.attempt + 1 IN
    IF exhausted(attempt)
    THEN [Finished(t, NoneJs) EXCEPT !.sleep = attempt]
    ELSE [t EXCEPT !.attempt = attempt, !.ncalls = @ + 1, !.sleep = attempt]

\* mutant: the attempt counter starts again when the retries are used up
fetch_raised_starts_again(t) ==
    LET attempt == (t.attempt + 1) % (max_retries + 1) IN
    [t EXCEPT !.attempt = attempt, !.ncalls = attempt, !.sleep = attempt]

\* get_card raised: count the attempt, give up with None and one warning, or
\* sleep backoff * attempt and go round the loop again
fetch_raised(t) ==
    LET attempt == t.attempt + 1 IN
    IF exhausted(attempt)
    THEN Finished(t, NoneJs)
    ELSE [t EXCEPT !.attempt = attempt, !.ncalls = @ + 1, !.sleep = attempt]

\* ------------------------------------------------------------------ store

RECURSIVE join(_)
\* ",".join(color)
join(color) ==
    IF color = <<>> THEN <<>>
    ELSE IF Len(color) = 1 THEN <<color[1]>>
    ELSE <<color[1], ",">> \o join(Tail(color))

\* the entry dict built for one unit of a row
make_entry(key, js, foil_value, src, unit) ==
    [set_code |-> key[1], collector_number |-> key[2], lang |-> key[3],
     name |-> js.name, color_identity |-> js.color_identity,
     price_usd |-> pick_price_from_json(js, foil_value),
     location |-> default_location, src |-> src, unit |-> unit]

\* the row of the table for one entry, under a given id
as_row(id, data) ==
    [id |-> id, set_code |-> data.set_code,
     collector_number |-> data.collector_number, lang |-> data.lang,
     name |-> data.name, color_identity |-> join(data.color_identity),
     price_usd |-> data.price_usd, location |-> data.location,
     src |-> data.src, unit |-> data.unit]

\* mutant: a stored row of the same printing is updated in place
insert_or_update(d, data) ==
    LET same == {i \in 1..Len(d.rows) :
                    /\ d.rows[i].set_code = data.set_code
                    /\ d.rows[i].collector_number = data.collector_number
                    /\ d.rows[i].lang = data.lang}
    IN  IF same = {}
        THEN [rows |-> Append(d.rows, as_row(d.seq + 1, data)), seq |-> d.seq + 1]
        ELSE [rows |-> [i \in 1..Len(d.rows) |->
                          IF i \in same THEN as_row(d.rows[i].id, data)
                          ELSE d.rows[i]],
              seq |-> d.seq]

\* one INSERT: the parameters of the statement and the AUTOINCREMENT id
insert_row(d, data) ==
    [rows |-> Append(d.rows, as_row(d.seq + 1, data)), seq |-> d.seq + 1]

RECURSIVE executemany_reversed(_, _)
\* mutant: the statements are run last entry first
executemany_reversed(d, entries) ==
    IF entries = <<>> THEN d
    ELSE insert_row(executemany_reversed(d, Tail(entries)), Head(entries))

RECURSIVE executemany(_, _)
\* conn.executemany(sql, params_list): one INSERT per entry, in list order
executemany(d, entries) ==
    IF entries = <<>> THEN d
    ELSE executemany(insert_row(d, Head(entries)), Tail(entries))

\* mutant: the rows inserted before the failure stay
rollback_missing(before, tx) == tx

\* `with self._connect() as conn` left by an exception: the transaction is
\* rolled back
rollback(before, tx) == before

\* add_entries(entries).  fail_at = 0: every statement and the commit succeed.
\* fail_at = k > 0: the k-th step of the transaction raises (k = Len + 1 is
\* the commit), with k - 1 rows inserted in the open transaction.
add_entries(d, entries, fail_at) ==
    IF entries = <<>> THEN [db |-> d, ok |-> TRUE, n |-> 0]
    ELSE IF fail_at = 0
         THEN [db |-> executemany(d, entries), ok |-> TRUE, n |-> Len(entries)]
         ELSE [db |-> rollback(d, executemany(d, SubSeq(entries, 1, fail_at - 1))),
               ok |-> FALSE, n |-> 0]

\* a store left by earlier runs: empty, or one row whose id follows a deleted one
OldRow ==
    [id |-> 2, set_code |-> <<"z">>, collector_number |-> <<"1">>, lang |-> <<>>,
     name |-> <<"Z">>, color_identity |-> <<"W", ",", "U">>,
     price_usd |-> Price(60), location |-> "binder", src |-> 0, unit |-> 0]

InitialDbs == { [rows |-> <<>>, seq |-> 0], [rows |-> <<OldRow>>, seq |-> 2] }

\* a row of the cards table; lang is None for SQL NULL
StoredRow(id, set_code, collector_number, lang) ==
    [id |-> id, set_code |-> set_code, collector_number |-> collector_number,
     lang |-> lang, name |-> <<"Z">>, color_identity |-> <<>>,
     price_usd |-> NullPrice, location |-> default_location, src |-> 0, unit |-> 0]

\* the stores of the remove runs: rows with the lang NULL, empty and "j", ids
\* with gaps left by earlier deletes
RemoveDbs ==
    { [rows |-> <<>>, seq |-> 0],
      [rows |-> <<StoredRow(2, <<"z">>, <<"1">>, None)>>, seq |-> 2],
      [rows |-> <<StoredRow(1, <<"k">>, <<"7">>, <<"j">>),
                  StoredRow(2, <<"z">>, <<"1">>, <<>>),
                  StoredRow(3, <<"z">>, <<"1">>, None)>>, seq |-> 3],
      [rows |-> <<StoredRow(1, <<"z">>, <<"1">>, <<"j">>),
                  StoredRow(3, <<"z">>, <<"1">>, None),
                  StoredRow(4, <<"k">>, <<"7">>, <<"j">>),
                  StoredRow(6, <<"z">>, <<"1">>, <<>>),
                  StoredRow(7, <<"z">>, <<"7">>, <<>>),
                  StoredRow(8, <<"z">>, <<"1">>, <<>>)>>, seq |-> 9] }

\* mutant: the lang is always compared with `lang = ?`
lang_matches_exact(stored, lang) == stored = lang

\* `lang IS NULL OR lang = ''` when the argument is None or "", `lang = ?`
\* otherwise
lang_matches(stored, lang) ==
    IF lang = None \/ lang = <<>> THEN stored = None \/ stored = <<>>
    ELSE stored = lang

\* the WHERE clause of remove_first_matching
where_clause(r, set_code, collector_number, lang) ==
    /\ r.set_code = set_code
    /\ r.collector_number = collector_number
    /\ lang_matches(r.lang, lang)

\* DELETE FROM cards WHERE id = row_id
delete_same_card(d, row_id) ==
    LET hit == d.rows[CHOOSE i \in 1..Len(d.rows) : d.rows[i].id = row_id]
    IN  [rows |-> SelectSeq(d.rows,
                            LAMBDA r : \/ r.set_code # hit.set_code
                                       \/ r.collector_number # hit.collector_number),
         seq |-> d.seq]

delete_id(d, row_id) ==
    [rows |-> SelectSeq(d.rows, LAMBDA r : r.id # row_id), seq |-> d.seq]

\* remove_first_matching: SELECT id ... ORDER BY id ASC LIMIT 1, then the
\* DELETE of that id.  found = FALSE stands for the None it returns.
remove_first_matching(d, set_code, collector_number, lang) ==
    LET hits == {i \in 1..Len(d.rows) :
                    where_clause(d.rows[i], set_code, collector_number, lang)}
    IN  IF hits = {} THEN [db |-> d, found |-> FALSE, id |-> 0]
        ELSE LET first == CHOOSE i \in hits :
                              \A j \in hits : d.rows[i].id <= d.rows[j].id
                 row_id == d.rows[first].id
             IN  [db |-> delete_id(d, row_id), found |-> TRUE, id |-> row_id]

\* ------------------------------------------------------------------ state

VARIABLES
    mode,               \* the positional argument of main: "append" or "remove"
    rows,               \* the CSV data rows, in file order
    chunk_size,         \* --chunk-size
    prefetch_workers,   \* --prefetch-workers
    do_prefetch,        \* not --no-prefetch
    pc,                 \* where process_append is
    total_qty,          \* total quantity computed by load_csv_rows
    unique_keys,        \* unique_keys of process_append
    cache,              \* key -> JSON or None
    futures,            \* the _fetch_one tasks submitted by prefetch_cards
    idx,                \* index of the CSV row the append loop is at
    unit,               \* units of rows[idx] already appended to the batch
    batch,              \* the batch buffer
    processed,          \* the counter the summary reports
    pbar,               \* position of the progress bar
    db,                 \* the cards table and its AUTOINCREMENT sequence
    db0,                \* history: db when the run started
    log,                \* warnings and the summary, in the order emitted
    calls,              \* history, per key: _fetch_one tasks started, get_card
                        \* calls that returned, whether one raised, and
                        \* "Prefetch failed" warnings
    lookup,             \* history: per CSV row, how its lookup ended
    commits,            \* history: the add_entries calls, in order
    error,              \* the exception that ended the run, if any
    removed_total,      \* removed_total of process_remove
    removed_for_row,    \* removed_for_row of process_remove
    deletes,            \* history: the remove_first_matching calls, in order
    matched,            \* history: per CSV row, the stored rows that matched
                        \* its key when process_remove came to it
    min_interval,       \* RateLimiter.min_interval, in clock ticks
    last,               \* RateLimiter._last
    lock,               \* RateLimiter._lock: the thread that holds it, or 0
    clock,              \* what time.time() returns
    thr,                \* per thread: where it is in wait(), its local now,
                        \* when its sleep ends, the calls it has still to make
    began,              \* history: the time of the first wait() call, or 0
    stamps,             \* history: the values written to _last, in order
    returns,            \* history: the times at which wait() calls returned,
                        \* in order
    self_max_retries,   \* ScryfallClient.max_retries
    get_attempt,        \* `attempt` of ScryfallClient._get
    resp,               \* status code of `resp` of _get, 0 while unbound
    requests,           \* history: the status codes session.get returned
    sleeps,             \* history: the multiples of backoff _get slept
    outcome,            \* how the get_card call ended, "running" before
    price_field,        \* --price-field of update_prices
    dry_run,            \* --dry-run of update_prices
    updates,            \* `updates` of run_update: (new_price, new_location, id)
    downgraded_rows,    \* downgraded_rows of run_update
    upgraded_rows,      \* upgraded_rows of run_update
    fetched,            \* history: per row of run_update, how get_card ended
                        \* and the price selected from what it returned
    applied             \* history: the _apply_update_batch calls, in order

vars == <<rows, chunk_size, prefetch_workers, do_prefetch, pc, total_qty,
          unique_keys, cache, futures, idx, unit, batch, processed, pbar, db,
          db0, log, calls, lookup, commits, error, mode, removed_total,
          removed_for_row, deletes, matched, min_interval, last, lock, clock,
          thr, began, stamps, returns, self_max_retries, get_attempt, resp,
          requests, sleeps, outcome, price_field, dry_run, updates,
          downgraded_rows, upgraded_rows, fetched, applied>>

update_vars == <<price_field, dry_run, updates, downgraded_rows, upgraded_rows,
                 fetched, applied>>

client_vars == <<self_max_retries, get_attempt, resp, requests, sleeps, outcome>>

limiter_vars == <<min_interval, last, lock, clock, thr, began, stamps, returns>>

inputs == <<mode, rows, chunk_size, prefetch_workers, do_prefetch, db0>>

remove_vars == <<removed_total, removed_for_row, deletes, matched>>

AllKeys == {row_key(t) : t \in RowTemplates}

EmptyCache == [k \in {} |-> NoneJs]

\* the values the variables of a program have while the model follows another
NoLimiter ==
    /\ min_interval = 0
    /\ last = 0
    /\ lock = 0
    /\ clock = 0
    /\ thr = <<>>
    /\ began = 0
    /\ stamps = <<>>
    /\ returns = <<>>

NoClient ==
    /\ self_max_retries = 0
    /\ get_attempt = 0
    /\ resp = 0
    /\ requests = <<>>
    /\ sleeps = <<>>
    /\ outcome = "none"

NoUpdate ==
    /\ price_field = "usd"
    /\ dry_run = FALSE
    /\ updates = <<>>
    /\ downgraded_rows = <<>>
    /\ upgraded_rows = <<>>
    /\ fetched = <<>>
    /\ applied = <<>>

\* main() up to the call of process_append or process_remove.  process_remove
\* is not given chunk_size, prefetch_workers or do_prefetch.
Init ==
    /\ mode \in {"append", "remove"}
    /\ IF mode = "append"
       THEN /\ rows \in SeqsUpTo(RowTemplates, MaxRows)
            /\ chunk_size \in 1..MaxChunk
            /\ prefetch_workers \in 1..MaxWorkers
            /\ do_prefetch \in BOOLEAN
            /\ db \in InitialDbs
       ELSE /\ rows \in SeqsUpTo(RemoveTemplates, MaxRows)
            /\ chunk_size = 1
            /\ prefetch_workers = 1
            /\ do_prefetch = FALSE
            /\ db \in RemoveDbs
    /\ db0 = db
    /\ pc = "start"
    /\ total_qty = 0
    /\ unique_keys = <<>>
    /\ cache = EmptyCache
    /\ futures = <<>>
    /\ idx = 1
    /\ unit = 0
    /\ batch = <<>>
    /\ processed = 0
    /\ pbar = 0
    /\ log = <<>>
    /\ calls = [k \in AllKeys |->
                   [started |-> 0, returned |-> 0, raised |-> FALSE, warned |-> 0]]
    /\ lookup = [i \in 1..Len(rows) |-> "none"]
    /\ commits = <<>>
    /\ error = "none"
    /\ removed_total = 0
    /\ removed_for_row = 0
    /\ deletes = <<>>
    /\ matched = [i \in 1..Len(rows) |-> 0]
    /\ NoLimiter
    /\ NoClient
    /\ NoUpdate

Event(level, event, row, n) == [level |-> level, event |-> event, row |-> row, n |-> n]

\* scry.get_card(key...) is called, and raises or returns
Called(key, ok) ==
    [calls EXCEPT ![key] = IF ok THEN [@ EXCEPT !.returned = @ + 1]
                                 ELSE [@ EXCEPT !.raised = TRUE]]

\* --------------------------------------------------------- process_append

\* mutant: the run goes on with nothing to do
nothing_to_do_ignored(total) == FALSE

\* `if total_qty == 0`, of process_append and of process_remove alike
nothing_to_do(total) == total = 0

\* load_csv_rows, the early return on total_qty == 0, the unique keys, and
\* in prefetch mode the start of prefetch_cards up to the submission of one
\* _fetch_one task per unique key
load_rows ==
    /\ mode = "append"
    /\ pc = "start"
    /\ total_qty' = sum_quantities(rows)
    /\ IF nothing_to_do(total_qty')
       THEN /\ pc' = "nothing"
            /\ UNCHANGED <<unique_keys, futures>>
       ELSE /\ unique_keys' = build_unique_keys(rows, <<>>)
            /\ IF do_prefetch
               THEN LET keys == prefetch_unique_keys(unique_keys', <<>>) IN
                    /\ futures' = [i \in 1..Len(keys) |-> NewTask(keys[i])]
                    /\ pc' = IF keys = <<>> THEN "rows" ELSE "prefetch"
               ELSE /\ futures' = <<>>
                    /\ pc' = "rows"
    /\ UNCHANGED <<update_vars, client_vars, limiter_vars, inputs, remove_vars, cache, idx, unit, batch, processed, pbar, db, log,
                   calls, lookup, commits, error>>

\* ---------------------------------------------------------- prefetch_cards

Running == {i \in 1..Len(futures) : futures[i].st = "running"}

\* a pool thread takes the next work item off the executor's FIFO queue
worker_start(i) ==
    /\ pc = "prefetch"
    /\ futures[i].st = "queued"
    /\ \A j \in 1..(i - 1) : futures[j].st # "queued"
    /\ Cardinality(Running) < prefetch_workers
    /\ futures' = [futures EXCEPT ![i].st = "running"]
    /\ calls' = [calls EXCEPT ![futures[i].key].started = @ + 1]
    /\ UNCHANGED <<update_vars, client_vars, limiter_vars, inputs, remove_vars, pc, total_qty, unique_keys, cache, idx, unit, batch,
                   processed, pbar, db, log, lookup, commits, error>>

\* one turn of the loop of _fetch_one: get_card returns or raises
fetch_call(i) ==
    /\ pc = "prefetch"
    /\ futures[i].st = "running"
    /\ \E ok \in BOOLEAN :
        /\ futures' = [futures EXCEPT
                          ![i] = IF ok THEN fetch_returned(@) ELSE fetch_raised(@)]
        /\ calls' = [Called(futures[i].key, ok) EXCEPT
                        ![futures[i].key].warned =
                            IF ~ok /\ futures'[i].st = "done" THEN @ + 1 ELSE @]
    /\ UNCHANGED <<update_vars, client_vars, limiter_vars, inputs, remove_vars, pc, total_qty, unique_keys, cache, idx, unit, batch,
                   processed, pbar, db, log, lookup, commits, error>>

\* mutant: only the lookups that succeeded are cached
collect_successes_only(c, t) ==
    IF t.js = NoneJs THEN c ELSE cache_put(c, t.key, t.js)

\* `k, js = fut.result(); cache[k] = js` for a future as_completed yields
collect_result(c, t) == cache_put(c, t.key, t.js)

collect(i) ==
    /\ pc = "prefetch"
    /\ futures[i].st = "done"
    /\ cache' = collect_result(cache, futures[i])
    /\ futures' = [futures EXCEPT ![i].st = "collected"]
    /\ UNCHANGED <<update_vars, client_vars, limiter_vars, inputs, remove_vars, pc, total_qty, unique_keys, idx, unit, batch,
                   processed, pbar, db, log, calls, lookup, commits, error>>

\* mutant: returns as soon as one result is in
any_resolved == \E i \in 1..Len(futures) : futures[i].st = "collected"

\* mutant: returns when every task has been started
all_started == \A i \in 1..Len(futures) : futures[i].st # "queued"

\* as_completed is exhausted and the executor has shut down
all_resolved == \A i \in 1..Len(futures) : futures[i].st = "collected"

\* `return cache`: the futures are locals of prefetch_cards and go with it
prefetch_return ==
    /\ pc = "prefetch"
    /\ all_resolved
    /\ pc' = "rows"
    /\ futures' = <<>>
    /\ UNCHANGED <<update_vars, client_vars, limiter_vars, inputs, remove_vars, total_qty, unique_keys, cache, idx, unit,
                   batch, processed, pbar, db, log, calls, lookup, commits, error>>

\* ------------------------------------------------- the append loop, per row

\* logger.warning(...) of the row loop
warn(lg, event, row) == Append(lg, Event("warning", event, row, 0))

\* mutant: the row is skipped silently
log_nothing(lg, row) == lg

\* "No prefetch result or prefetch failed for ...; skipping"
log_prefetch_miss(lg, row) == warn(lg, "no_prefetch_result", row)

\* `if js is None` after `js = cache.get(key)`
prefetch_missed(js) == js = NoneJs

\* mutant: a row without identity leaves the progress bar where it is
skipped_progress_none(p, quantity) == p

\* `pbar.update(max(quantity, 0))` for a row without identity
skipped_progress(p, quantity) == p + Max(quantity, 0)

\* `continue`: the loop goes to the next row
next_row ==
    /\ idx' = idx + 1
    /\ pc' = "rows"
    /\ unit' = 0

\* the row has a record: the loop over its units starts
expand_row(how) ==
    /\ lookup' = [lookup EXCEPT ![idx] = how]
    /\ pc' = "units"
    /\ unit' = 0
    /\ UNCHANGED <<idx, log, pbar, processed>>

\* the head of one iteration of `for cr in rows`, down to the lookup
process_row ==
    /\ pc = "rows"
    /\ idx <= Len(rows)
    /\ LET cr == rows[idx]
           quantity == parse_quantity(cr.qty)
           key == row_key(cr)
       IN  IF missing_identity(cr)
           THEN /\ log' = warn(log, "missing_identity", idx)
                /\ pbar' = skipped_progress(pbar, quantity)
                /\ next_row
                /\ UNCHANGED <<processed, cache, calls, lookup>>
           ELSE IF quantity <= 0
           THEN /\ log' = warn(log, "quantity", idx)
                /\ next_row
                /\ UNCHANGED <<pbar, processed, cache, calls, lookup>>
           ELSE IF do_prefetch
           THEN /\ IF prefetch_missed(cache_get(cache, key))
                   THEN /\ log' = log_prefetch_miss(log, idx)
                        /\ pbar' = pbar + quantity
                        /\ processed' = processed + quantity
                        /\ lookup' = [lookup EXCEPT ![idx] = "miss"]
                        /\ next_row
                   ELSE expand_row("cached")
                /\ UNCHANGED <<cache, calls>>
           ELSE IF key \in DOMAIN cache
           THEN /\ expand_row("cached")
                /\ UNCHANGED <<cache, calls>>
           ELSE \E ok \in BOOLEAN :
                /\ calls' = Called(key, ok)
                /\ IF ok
                   THEN /\ cache' = cache_put(cache, key, Card(key))
                        /\ expand_row("fetched")
                   ELSE /\ log' = warn(log, "fetch_failed", idx)
                        /\ pbar' = pbar + quantity
                        /\ processed' = processed + quantity
                        /\ lookup' = [lookup EXCEPT ![idx] = "failed"]
                        /\ next_row
                        /\ UNCHANGED cache
    /\ UNCHANGED <<update_vars, client_vars, limiter_vars, inputs, remove_vars, total_qty, unique_keys, futures, batch, db, commits,
                   error>>

\* mutant: commits one draft late
chunk_full_late(b) == Len(b) > chunk_size

\* mutant: commits every second draft, whatever the chunk size
chunk_full_at_two(b) == Len(b) >= 2

\* `if len(batch) >= chunk_size`
chunk_full(b) == Len(b) >= chunk_size

\* mutant: range(quantity - 1)
units_done_early(done, quantity) == done >= quantity - 1

\* `for _ in range(quantity)` is exhausted after `done` iterations
units_done(done, quantity) == done = quantity

\* db.add_entries(batch) raised: the exception leaves process_append
abort_run(b, d) ==
    /\ db' = d
    /\ batch' = b
    /\ commits' = Append(commits, [n |-> Len(b), ok |-> FALSE])
    /\ pc' = "aborted"
    /\ error' = "store"

\* one iteration of `for _ in range(quantity)`
append_unit ==
    /\ pc = "units"
    /\ LET cr == rows[idx]
           quantity == parse_quantity(cr.qty)
           key == row_key(cr)
           entry == make_entry(key, cache[key], cr.foil, idx, unit + 1)
           filled == Append(batch, entry)
           counted == /\ pbar' = pbar + 1
                      /\ processed' = processed + 1
                      /\ error' = error
                      /\ IF units_done(unit + 1, quantity)
                         THEN next_row
                         ELSE /\ unit' = unit + 1
                              /\ UNCHANGED <<idx, pc>>
       IN  IF chunk_full(filled)
           THEN \E fail_at \in 0..(Len(filled) + 1) :
                    LET r == add_entries(db, filled, fail_at) IN
                    IF r.ok
                    THEN /\ db' = r.db
                         /\ batch' = <<>>
                         /\ commits' = Append(commits, [n |-> r.n, ok |-> TRUE])
                         /\ counted
                    ELSE /\ abort_run(filled, r.db)
                         /\ UNCHANGED <<pbar, processed, idx, unit>>
           ELSE /\ batch' = filled
                /\ counted
                /\ UNCHANGED <<db, commits>>
    /\ UNCHANGED <<update_vars, client_vars, limiter_vars, inputs, remove_vars, total_qty, unique_keys, cache, futures, log, calls,
                   lookup>>

\* mutant: no final flush
flush_never(b) == FALSE

\* `if batch:` of the final flush
flush_needed(b) == b # <<>>

\* after the last row: the final flush and the summary
final_flush ==
    /\ pc = "rows"
    /\ idx > Len(rows)
    /\ LET finish == /\ pc' = "done"
                     /\ log' = Append(log, Event("info", "appended", 0, processed))
                     /\ error' = error
       IN  IF flush_needed(batch)
           THEN \E fail_at \in 0..(Len(batch) + 1) :
                    LET r == add_entries(db, batch, fail_at) IN
                    IF r.ok
                    THEN /\ db' = r.db
                         /\ batch' = <<>>
                         /\ commits' = Append(commits, [n |-> r.n, ok |-> TRUE])
                         /\ finish
                    ELSE /\ abort_run(batch, r.db)
                         /\ UNCHANGED log
           ELSE /\ finish
                /\ UNCHANGED <<db, batch, commits>>
    /\ UNCHANGED <<update_vars, client_vars, limiter_vars, inputs, remove_vars, total_qty, unique_keys, cache, futures, idx, unit,
                   processed, pbar, calls, lookup>>

\* --------------------------------------------------------- process_remove

\* the stored rows that match the key of a CSV row
matching_rows(d, cr) ==
    {i \in 1..Len(d.rows) :
        where_clause(d.rows[i], strip(cr.set), strip(cr.num),
                     IF Truthy(cr.lang) THEN strip(cr.lang) ELSE None)}

\* load_csv_rows and the early return on total_qty == 0
remove_load ==
    /\ mode = "remove"
    /\ pc = "start"
    /\ total_qty' = sum_quantities(rows)
    /\ pc' = IF nothing_to_do(total_qty') THEN "nothing" ELSE "remove_rows"
    /\ UNCHANGED <<update_vars, client_vars, limiter_vars, inputs, remove_vars, unique_keys, cache, futures, idx, unit,
                   batch, processed, pbar, db, log, calls, lookup, commits, error>>

\* the head of one iteration of `for cr in rows`, down to `removed_for_row = 0`
remove_row ==
    /\ pc = "remove_rows"
    /\ idx <= Len(rows)
    /\ LET cr == rows[idx]
           quantity == parse_quantity(cr.qty)
       IN  IF missing_identity(cr)
           THEN /\ log' = warn(log, "missing_identity", idx)
                /\ pbar' = pbar + quantity
                /\ idx' = idx + 1
                /\ UNCHANGED <<pc, removed_for_row, matched>>
           ELSE IF quantity <= 0
           THEN /\ log' = warn(log, "quantity", idx)
                /\ pbar' = pbar + 0
                /\ idx' = idx + 1
                /\ UNCHANGED <<pc, removed_for_row, matched>>
           ELSE /\ removed_for_row' = 0
                /\ matched' = [matched EXCEPT
                                  ![idx] = Cardinality(matching_rows(db, cr))]
                /\ pc' = "remove_units"
                /\ UNCHANGED <<log, pbar, idx>>
    /\ unit' = 0
    /\ UNCHANGED <<update_vars, client_vars, limiter_vars, inputs, total_qty, unique_keys, cache, futures, batch,
                   processed, db, calls, lookup, commits, error, removed_total,
                   deletes>>

\* mutant: the loop goes on after a call that found nothing
no_match_goes_on(done, quantity, removed) == done = quantity

\* the loop over the units of a row ends: `break` when nothing was removed,
\* or range(quantity) is exhausted
removal_done(done, quantity, removed) == ~removed \/ done = quantity

\* one iteration of `for _ in range(quantity)` of process_remove
remove_unit ==
    /\ pc = "remove_units"
    /\ LET cr == rows[idx]
           quantity == parse_quantity(cr.qty)
           args == <<strip(cr.set), strip(cr.num),
                     IF Truthy(cr.lang) THEN strip(Or(cr.lang, <<>>)) ELSE None>>
           r == remove_first_matching(db, args[1], args[2], args[3])
           removed == r.found /\ r.id # 0
       IN  /\ db' = r.db
           /\ deletes' = Append(deletes, [row |-> idx, args |-> args,
                                          found |-> r.found, id |-> r.id])
           /\ pbar' = pbar + 1
           /\ IF removed
              THEN /\ removed_for_row' = removed_for_row + 1
                   /\ removed_total' = removed_total + 1
                   /\ log' = Append(log, Event("info", "removed", idx, r.id))
              ELSE /\ log' = Append(log,
                                 IF removed_for_row = 0
                                 THEN Event("info", "no_match", idx, 0)
                                 ELSE Event("info", "stopped", idx, removed_for_row))
                   /\ UNCHANGED <<removed_for_row, removed_total>>
           /\ IF removal_done(unit + 1, quantity, removed)
              THEN /\ idx' = idx + 1
                   /\ unit' = 0
                   /\ pc' = "remove_rows"
              ELSE /\ unit' = unit + 1
                   /\ UNCHANGED <<idx, pc>>
    /\ UNCHANGED <<update_vars, client_vars, limiter_vars, inputs, total_qty, unique_keys, cache, futures, batch,
                   processed, calls, lookup, commits, error, matched>>

\* after the last row: the summary
remove_finish ==
    /\ pc = "remove_rows"
    /\ idx > Len(rows)
    /\ log' = Append(log, Event("info", "removed_total", 0, removed_total))
    /\ pc' = "removed"
    /\ UNCHANGED <<update_vars, client_vars, limiter_vars, inputs, remove_vars, total_qty, unique_keys, cache, futures,
                   idx, unit, batch, processed, pbar, db, calls, lookup, commits,
                   error>>

Next ==
    \/ load_rows
    \/ \E i \in 1..Len(futures) : worker_start(i)
    \/ \E i \in 1..Len(futures) : fetch_call(i)
    \/ \E i \in 1..Len(futures) : collect(i)
    \/ prefetch_return
    \/ process_row
    \/ append_unit
    \/ final_flush
    \/ remove_load
    \/ remove_row
    \/ remove_unit
    \/ remove_finish

Spec == Init /\ [][Next]_vars

\* ------------------------------------------------ prefetch_cards alone

\* an append run with prefetch, followed up to the return of prefetch_cards,
\* which reads neither the chunk size nor the store
PrefetchInit ==
    /\ Init
    /\ mode = "append"
    /\ do_prefetch
    /\ chunk_size = 1
    /\ db.rows = <<>>

PrefetchNext ==
    \/ load_rows
    \/ \E i \in 1..Len(futures) : worker_start(i)
    \/ \E i \in 1..Len(futures) : fetch_call(i)
    \/ \E i \in 1..Len(futures) : collect(i)
    \/ prefetch_return

\* a step of a thread of the pool
pool_step ==
    \/ \E i \in 1..Len(futures) : worker_start(i)
    \/ \E i \in 1..Len(futures) : fetch_call(i)

\* a step of the thread that called prefetch_cards
caller_step ==
    \/ \E i \in 1..Len(futures) : collect(i)
    \/ prefetch_return

\* Scheduling: while some thread of the pool can take a step one of them
\* does, and so does the thread that called prefetch_cards.  A get_card call
\* returns or raises (the session has a timeout and _get a bounded loop), and
\* time.sleep returns.
PrefetchSpec ==
    PrefetchInit /\ [][PrefetchNext]_vars /\ WF_vars(pool_step) /\ WF_vars(caller_step)

\* ------------------------------------------- update_prices.RateLimiter

run_vars == <<mode, rows, chunk_size, prefetch_workers, do_prefetch, pc,
              total_qty, unique_keys, cache, futures, idx, unit, batch,
              processed, pbar, db, db0, log, calls, lookup, commits, error,
              removed_total, removed_for_row, deletes, matched>>

\* time.time() when the limiter is made: seconds since 1970, more than any
\* min_interval after the 0.0 that _last starts at
Epoch == MaxInterval + 1

\* a thread that will call wait() `n` times
Caller(n) == [pc |-> "idle", now |-> 0, wake |-> 0, left |-> n]

\* RateLimiter(min_interval) shared by the threads 1..n; no append or remove
\* run is followed
LimiterInit ==
    /\ mode = "limiter"
    /\ rows = <<>>
    /\ chunk_size = 1
    /\ prefetch_workers = 1
    /\ do_prefetch = FALSE
    /\ pc = "limiter"
    /\ total_qty = 0
    /\ unique_keys = <<>>
    /\ cache = EmptyCache
    /\ futures = <<>>
    /\ idx = 1
    /\ unit = 0
    /\ batch = <<>>
    /\ processed = 0
    /\ pbar = 0
    /\ db = [rows |-> <<>>, seq |-> 0]
    /\ db0 = db
    /\ log = <<>>
    /\ calls = [k \in AllKeys |->
                   [started |-> 0, returned |-> 0, raised |-> FALSE, warned |-> 0]]
    /\ lookup = <<>>
    /\ commits = <<>>
    /\ error = "none"
    /\ removed_total = 0
    /\ removed_for_row = 0
    /\ deletes = <<>>
    /\ matched = <<>>
    /\ min_interval \in 1..MaxInterval
    /\ last = 0
    /\ lock = 0
    /\ clock = Epoch
    /\ \E n \in 1..MaxCallers, c \in 1..MaxCalls : thr = [t \in 1..n |-> Caller(c)]
    /\ began = 0
    /\ stamps = <<>>
    /\ returns = <<>>
    /\ NoClient
    /\ NoUpdate

\* time passes
tick ==
    /\ clock < Epoch + MaxTicks
    /\ clock' = clock + 1
    /\ UNCHANGED <<update_vars, client_vars, run_vars, min_interval, last, lock, thr, began, stamps,
                   returns>>

\* thread t calls limiter.wait()
call_wait(t) ==
    /\ thr[t].pc = "idle"
    /\ thr[t].left > 0
    /\ thr' = [thr EXCEPT ![t].pc = "acquire"]
    /\ began' = IF began = 0 THEN clock ELSE began
    /\ UNCHANGED <<update_vars, client_vars, run_vars, min_interval, last, lock, clock, stamps, returns>>

\* mutant: wait() without the lock
lock_not_taken(l) == TRUE

\* the lock can be acquired
lock_free(l) == l = 0

\* `with self._lock:` is entered
acquire(t) ==
    /\ thr[t].pc = "acquire"
    /\ lock_free(lock)
    /\ lock' = t
    /\ thr' = [thr EXCEPT ![t].pc = "read"]
    /\ UNCHANGED <<update_vars, client_vars, run_vars, min_interval, last, clock, began, stamps, returns>>

\* now = time.time(); elapsed = now - self._last;
\* sleep_for = self.min_interval - elapsed; time.sleep(sleep_for) is begun
\* when sleep_for > 0
read_clock(t) ==
    /\ thr[t].pc = "read"
    /\ LET now == clock
           elapsed == now - last
           sleep_for == min_interval - elapsed
       IN  thr' = [thr EXCEPT
                      ![t].now = now,
                      ![t].wake = IF sleep_for > 0 THEN clock + sleep_for ELSE 0,
                      ![t].pc = IF sleep_for > 0 THEN "sleep" ELSE "store"]
    /\ UNCHANGED <<update_vars, client_vars, run_vars, min_interval, last, lock, clock, began, stamps,
                   returns>>

\* time.sleep(sleep_for) is over, at the time asked or later; now = time.time()
wake_up(t) ==
    /\ thr[t].pc = "sleep"
    /\ clock >= thr[t].wake
    /\ thr' = [thr EXCEPT ![t].now = clock, ![t].wake = 0, ![t].pc = "store"]
    /\ UNCHANGED <<update_vars, client_vars, run_vars, min_interval, last, lock, clock, began, stamps,
                   returns>>

\* self._last = now
store_last(t) ==
    /\ thr[t].pc = "store"
    /\ last' = thr[t].now
    /\ stamps' = Append(stamps, thr[t].now)
    /\ thr' = [thr EXCEPT ![t].pc = "release"]
    /\ UNCHANGED <<update_vars, client_vars, run_vars, min_interval, lock, clock, began, returns>>

\* the with block is left, the lock released, and wait() returns
leave_wait(t) ==
    /\ thr[t].pc = "release"
    /\ lock' = 0
    /\ returns' = Append(returns, clock)
    /\ thr' = [thr EXCEPT ![t] = Caller(@.left - 1)]
    /\ UNCHANGED <<update_vars, client_vars, run_vars, min_interval, last, clock, began, stamps>>

LimiterNext ==
    \/ tick
    \/ \E t \in DOMAIN thr : call_wait(t)
    \/ \E t \in DOMAIN thr : acquire(t)
    \/ \E t \in DOMAIN thr : read_clock(t)
    \/ \E t \in DOMAIN thr : wake_up(t)
    \/ \E t \in DOMAIN thr : store_last(t)
    \/ \E t \in DOMAIN thr : leave_wait(t)

LimiterSpec == LimiterInit /\ [][LimiterNext]_vars

\* --------------------------------------------- ScryfallClient.get_card

\* the status codes the API may answer with
Statuses == {200, 204, 404, 429, 500, 501, 502, 503, 504}

\* the values the variables of main have while the model follows another
\* program `m`
NoRun(m) ==
    /\ mode = m
    /\ rows = <<>>
    /\ chunk_size = 1
    /\ prefetch_workers = 1
    /\ do_prefetch = FALSE
    /\ pc = m
    /\ total_qty = 0
    /\ unique_keys = <<>>
    /\ cache = EmptyCache
    /\ futures = <<>>
    /\ idx = 1
    /\ unit = 0
    /\ batch = <<>>
    /\ processed = 0
    /\ pbar = 0
    /\ db = [rows |-> <<>>, seq |-> 0]
    /\ db0 = db
    /\ log = <<>>
    /\ calls = [k \in AllKeys |->
                   [started |-> 0, returned |-> 0, raised |-> FALSE, warned |-> 0]]
    /\ lookup = <<>>
    /\ commits = <<>>
    /\ error = "none"
    /\ removed_total = 0
    /\ removed_for_row = 0
    /\ deletes = <<>>
    /\ matched = <<>>

\* ScryfallClient(max_retries = ...) and the entry of get_card into _get.
\* main and run_update make the client with the default max_retries = 3.
ClientInit ==
    /\ NoRun("get")
    /\ NoLimiter
    /\ self_max_retries \in 0..MaxClientRetries
    /\ get_attempt = 1
    /\ resp = 0
    /\ requests = <<>>
    /\ sleeps = <<>>
    /\ outcome = "running"
    /\ NoUpdate

\* `resp.status_code in (429, 500, 502, 503, 504)`
retryable(status) == status \in {429, 500, 502, 503, 504}

\* resp.raise_for_status() raises HTTPError for a 4xx or 5xx status and
\* returns None for any other
raise_for_status(status) == status >= 400 /\ status < 600

\* the statement after the loop, `resp.raise_for_status()`: it raises for an
\* error status, and for any other status falls off the end of _get, which
\* then returns None
after_loop(status) ==
    outcome' = IF raise_for_status(status) THEN "raised" ELSE "returned_none"

\* `for attempt in range(1, self.max_retries + 1)` goes on with the next
\* attempt, or is exhausted and the statement after the loop runs
next_attempt(status) ==
    /\ get_attempt' = get_attempt + 1
    /\ IF get_attempt + 1 <= self_max_retries
       THEN outcome' = outcome
       ELSE after_loop(status)

\* range(1, max_retries + 1) is empty: the statement after the loop finds
\* `resp` unbound and raises UnboundLocalError
no_request ==
    /\ mode = "get"
    /\ outcome = "running"
    /\ self_max_retries < 1
    /\ outcome' = "raised"
    /\ UNCHANGED <<update_vars, limiter_vars, run_vars, self_max_retries, get_attempt, resp,
                   requests, sleeps>>

\* one turn of the loop of _get: a request and what follows from its status
http_request ==
    /\ mode = "get"
    /\ outcome = "running"
    /\ get_attempt <= self_max_retries
    /\ \E status \in Statuses :
        /\ resp' = status
        /\ requests' = Append(requests, status)
        /\ IF status = 200
           THEN /\ outcome' = "returned"
                /\ UNCHANGED <<get_attempt, sleeps>>
           ELSE IF retryable(status)
           THEN /\ sleeps' = Append(sleeps, get_attempt)
                /\ next_attempt(status)
           ELSE IF raise_for_status(status)
           THEN /\ outcome' = "raised"
                /\ UNCHANGED <<get_attempt, sleeps>>
           ELSE /\ next_attempt(status)
                /\ UNCHANGED sleeps
    /\ UNCHANGED <<update_vars, limiter_vars, run_vars, self_max_retries>>

ClientNext ==
    \/ no_request
    \/ http_request

ClientSpec == ClientInit /\ [][ClientNext]_vars

\* ------------------------------------------- update_prices.run_update

\* `5.0` of the two threshold comparisons, in tenths
threshold == 50

\* the new_location of both branches
bulk == "bulk"

\* a stored row with a price and a location
PricedRow(id, price, location) ==
    [StoredRow(id, <<"z">>, <<"1">>, <<>>) EXCEPT
        !.price_usd = price, !.location = location]

\* (price_usd, location) of the rows the stores of the update runs are made
\* of: a price above the threshold, one just below, NULL, and the threshold
UpdateTemplates ==
    { <<Price(120), "binder">>, <<Price(49), "binder">>, <<NullPrice, "bulk">>,
      <<Price(50), "shelf">> }

\* the store that holds the rows of q under the ids 2, 3, ...
MakeDb(q) ==
    [rows |-> [i \in 1..Len(q) |-> PricedRow(i + 1, q[i][1], q[i][2])],
     seq |-> IF q = <<>> THEN 0 ELSE Len(q) + 1]

UpdateDbs == {MakeDb(q) : q \in SeqsUpTo(UpdateTemplates, MaxRows)}

\* what get_card may return to run_update: None (ClientSpec shows when) or a
\* record; only its prices are read
FetchedRecords ==
    { NoneJs,
      [none |-> FALSE,
       prices |-> [usd |-> <<"5", ".", "0">>, usd_foil |-> <<"4", ".", "9">>,
                   usd_etched |-> None]],
      [none |-> FALSE,
       prices |-> [usd |-> <<"1", "2">>, usd_foil |-> <<"x">>,
                   usd_etched |-> <<>>]] }

\* prices.get(price_field)
prices_get(prices, field) ==
    IF field = "usd" THEN prices.usd
    ELSE IF field = "usd_foil" THEN prices.usd_foil
    ELSE prices.usd_etched

select_price_from_json(js, field) ==
    IF js.none THEN NullPrice
    ELSE LET val == prices_get(js.prices, field) IN
         IF val \in {None, <<>>, <<"n", "u", "l", "l">>} THEN NullPrice
         ELSE IF float(val).ok THEN Price(float(val).tenths) ELSE NullPrice

\* old_cmp / new_cmp: `val if val is not None else 0.0`
as_cmp(val) == IF val.null THEN 0 ELSE val.tenths

\* mutant: a new price of exactly 5 counts as below the threshold
downgraded_at_five(old_cmp, new_cmp) == old_cmp >= threshold /\ new_cmp <= threshold

\* `if old_cmp >= 5.0 and new_cmp < 5.0`
downgraded(old_cmp, new_cmp) == old_cmp >= threshold /\ new_cmp < threshold

\* `elif old_cmp < 5.0 and new_cmp >= 5.0`
upgraded(old_cmp, new_cmp) == old_cmp < threshold /\ new_cmp >= threshold

\* mutant: REPLACE INTO cards (id, price_usd, location): the row is written
\* anew and its other columns are lost
replace_row(d, u) ==
    [d EXCEPT !.rows =
        [j \in 1..Len(d.rows) |->
            IF d.rows[j].id = u.id
            THEN [d.rows[j] EXCEPT !.price_usd = u.new_price,
                                   !.location = u.new_location,
                                   !.name = None, !.color_identity = None]
            ELSE d.rows[j]]]

\* UPDATE cards SET price_usd = ?, location = ? WHERE id = ?
update_row(d, u) ==
    [d EXCEPT !.rows =
        [j \in 1..Len(d.rows) |->
            IF d.rows[j].id = u.id
            THEN [d.rows[j] EXCEPT !.price_usd = u.new_price,
                                   !.location = u.new_location]
            ELSE d.rows[j]]]

\* cur.executemany(sql, params)
RECURSIVE executemany_update(_, _)
executemany_update(d, params) ==
    IF params = <<>> THEN d
    ELSE executemany_update(update_row(d, Head(params)), Tail(params))

\* _apply_update_batch(conn, updates).  fail_at = 0: BEGIN, every UPDATE and
\* the commit succeed.  fail_at = k > 0: the k-th step raises (k = Len + 1 is
\* the commit) with k - 1 rows updated in the open transaction, which is
\* rolled back, and the exception is raised again.
apply_update_batch(d, ups, fail_at) ==
    IF fail_at = 0
    THEN [db |-> executemany_update(d, ups), ok |-> TRUE]
    ELSE [db |-> rollback(d, executemany_update(d, SubSeq(ups, 1, fail_at - 1))),
          ok |-> FALSE]

\* DBManager.list_all(): every row, ORDER BY id
list_all(d) == d.rows

\* what run_update leaves alone
update_frame == <<mode, chunk_size, prefetch_workers, do_prefetch, total_qty,
                  unique_keys, cache, futures, unit, batch, processed, db0, log,
                  calls, lookup, commits, removed_total, removed_for_row,
                  deletes, matched, price_field, dry_run>>

\* parse_args and the call of run_update.  --chunk-size is any int; 0 stands
\* for the values below 1, with which `len(updates) >= chunk_size` always
\* holds.
UpdateInit ==
    /\ mode = "update"
    /\ pc = "start"
    /\ rows = <<>>
    /\ chunk_size \in 0..MaxChunk
    /\ db \in UpdateDbs
    /\ db0 = db
    /\ price_field \in {"usd", "usd_foil", "usd_etched"}
    /\ dry_run \in BOOLEAN
    /\ updates = <<>>
    /\ downgraded_rows = <<>>
    /\ upgraded_rows = <<>>
    /\ fetched = <<>>
    /\ applied = <<>>
    /\ prefetch_workers = 1
    /\ do_prefetch = FALSE
    /\ total_qty = 0
    /\ unique_keys = <<>>
    /\ cache = EmptyCache
    /\ futures = <<>>
    /\ idx = 1
    /\ unit = 0
    /\ batch = <<>>
    /\ processed = 0
    /\ pbar = 0
    /\ log = <<>>
    /\ calls = [k \in AllKeys |->
                   [started |-> 0, returned |-> 0, raised |-> FALSE, warned |-> 0]]
    /\ lookup = <<>>
    /\ commits = <<>>
    /\ error = "none"
    /\ removed_total = 0
    /\ removed_for_row = 0
    /\ deletes = <<>>
    /\ matched = <<>>
    /\ NoLimiter
    /\ NoClient

\* rows = fetch_all_cards(db) and the early return on an empty table
update_load ==
    /\ mode = "update"
    /\ pc = "start"
    /\ rows' = list_all(db)
    /\ pc' = IF Len(rows') = 0 THEN "nothing" ELSE "check"
    /\ UNCHANGED <<update_frame, limiter_vars, client_vars, idx, pbar, db, error,
                   updates, downgraded_rows, upgraded_rows, fetched, applied>>

\* mutant: the batch is applied in a dry run too
apply_always(dry) == TRUE

\* `if not dry_run:` before _apply_update_batch
apply_wanted(dry) == ~dry

\* `if not dry_run: _apply_update_batch(conn, updates)`, `updates.clear()`,
\* and then `go_on`; an exception of _apply_update_batch leaves run_update
flush_updates(ups, go_on) ==
    IF apply_wanted(dry_run)
    THEN \E fail_at \in 0..(Len(ups) + 1) :
            LET r == apply_update_batch(db, ups, fail_at) IN
            /\ db' = r.db
            /\ applied' = Append(applied, [n |-> Len(ups), ok |-> r.ok])
            /\ IF r.ok
               THEN /\ updates' = <<>>
                    /\ error' = error
                    /\ go_on
               ELSE /\ updates' = ups
                    /\ error' = "store"
                    /\ pc' = "aborted"
                    /\ UNCHANGED <<idx, pbar>>
    ELSE /\ updates' = <<>>
         /\ go_on
         /\ UNCHANGED <<db, applied, error>>

\* mutant: the last updates are dropped
rest_never(ups) == FALSE

\* `if updates:` of the final batch
rest_left(ups) == ups # <<>>

\* mutant: flushes one update late
batch_full_late(ups) == Len(ups) > chunk_size

\* `if len(updates) >= chunk_size`
batch_full(ups) == Len(ups) >= chunk_size

\* One iteration of `for row in rows`.  limiter.wait() (LimiterSpec) comes
\* before the get_card call, which raises, returns None or returns a record.
\* No stored row of the model has a NULL location (`row.get("location") or ""`).
check_row ==
    /\ mode = "update"
    /\ pc = "check"
    /\ idx <= Len(rows)
    /\ LET row == rows[idx]
           card_id == row.id
           old_val == row.price_usd
           old_location == row.location
           go_on == /\ pbar' = pbar + 1
                    /\ idx' = idx + 1
                    /\ pc' = pc
       IN  \/ /\ fetched' = Append(fetched, [ok |-> FALSE, new |-> NullPrice])
              /\ go_on
              /\ UNCHANGED <<updates, downgraded_rows, upgraded_rows, db, applied,
                             error>>
           \/ \E js \in FetchedRecords :
                LET new_val == select_price_from_json(js, price_field)
                    old_cmp == as_cmp(old_val)
                    new_cmp == as_cmp(new_val)
                    down == downgraded(old_cmp, new_cmp)
                    up == ~down /\ upgraded(old_cmp, new_cmp)
                    report == [id |-> card_id, old_price |-> old_val,
                               new_price |-> new_val,
                               old_location |-> old_location,
                               new_location |-> bulk]
                    queued == IF down \/ up
                              THEN Append(updates,
                                          [new_price |-> new_val,
                                           new_location |-> bulk, id |-> card_id])
                              ELSE updates
                IN  /\ fetched' = Append(fetched, [ok |-> TRUE, new |-> new_val])
                    /\ downgraded_rows' = IF down THEN Append(downgraded_rows, report)
                                          ELSE downgraded_rows
                    /\ upgraded_rows' = IF up THEN Append(upgraded_rows, report)
                                        ELSE upgraded_rows
                    /\ IF batch_full(queued)
                       THEN flush_updates(queued, go_on)
                       ELSE /\ updates' = queued
                            /\ go_on
                            /\ UNCHANGED <<db, applied, error>>
    /\ UNCHANGED <<update_frame, limiter_vars, client_vars, rows>>

\* after the loop: the final batch and the CSV files
final_batch ==
    /\ mode = "update"
    /\ pc = "check"
    /\ idx > Len(rows)
    /\ LET finish == /\ pc' = "done"
                     /\ UNCHANGED <<idx, pbar>>
       IN  IF rest_left(updates)
           THEN flush_updates(updates, finish)
           ELSE /\ finish
                /\ UNCHANGED <<updates, db, applied, error>>
    /\ UNCHANGED <<update_frame, limiter_vars, client_vars, rows, downgraded_rows,
                   upgraded_rows, fetched>>

UpdateNext ==
    \/ update_load
    \/ check_row
    \/ final_batch

UpdateSpec == UpdateInit /\ [][UpdateNext]_vars

\* ================================================================ claims

\* what the claims read off the state

\* the trimmed (set code, collector number, language) a CSV row refers to
TrimmedKeyOf ==
    [cr \in RowTemplates \cup RemoveTemplates |->
        <<strip(cr.set), strip(cr.num),
          IF cr.lang = None THEN <<>> ELSE strip(cr.lang)>>]

TrimmedKey(cr) == TrimmedKeyOf[cr]

\* set code and collector number are both present and not empty
HasIdentity(cr) == cr.set \notin {None, <<>>} /\ cr.num \notin {None, <<>>}

\* set code and collector number both have a character that is not a blank
NonBlankIdentity(cr) ==
    /\ HasIdentity(cr)
    /\ strip(cr.set) # <<>>
    /\ strip(cr.num) # <<>>

RowIds == 1..Len(rows)

\* parse_quantity, tabulated over the quantity fields of the CSV files
QuantityOf ==
    [v \in {t.qty : t \in RowTemplates \cup RemoveTemplates} |-> parse_quantity(v)]

Quantity(i) == QuantityOf[rows[i].qty]

\* the distinct keys the rows of the file refer to
ReferencedKeys == {TrimmedKey(rows[i]) : i \in {j \in RowIds : HasIdentity(rows[j])}}

RECURSIVE SumReturned(_)
SumReturned(S) ==
    IF S = {} THEN 0
    ELSE LET k == CHOOSE x \in S : TRUE
         IN  calls[k].returned + SumReturned(S \ {k})

NoCallRaised == \A k \in AllKeys : ~calls[k].raised

\* the rows the run has added to the table
NewRows == SubSeq(db.rows, Len(db0.rows) + 1, Len(db.rows))

\* the positions in NewRows of the rows made for CSV row i
RowsOf(i) == {j \in 1..Len(NewRows) : NewRows[j].src = i}

\* a draft or a stored row without its id, colours joined as the table holds them
Content(r) ==
    [set_code |-> r.set_code, collector_number |-> r.collector_number,
     lang |-> r.lang, name |-> r.name,
     color_identity |-> IF "id" \in DOMAIN r THEN r.color_identity
                        ELSE join(r.color_identity),
     price_usd |-> r.price_usd, location |-> r.location, src |-> r.src,
     unit |-> r.unit]

Contents(q) == [j \in 1..Len(q) |-> Content(q[j])]

\* the row the table should hold for unit u of CSV row i
ExpectedOf ==
    [cr \in RowTemplates |->
        LET k == TrimmedKey(cr) IN
        [set_code |-> k[1], collector_number |-> k[2], lang |-> k[3],
         name |-> Card(k).name, color_identity |-> join(Card(k).color_identity),
         price_usd |-> pick_price_from_json(Card(k), cr.foil),
         location |-> default_location]]

ExpectedRow(i, u) ==
    LET e == ExpectedOf[rows[i]] IN
    [set_code |-> e.set_code, collector_number |-> e.collector_number,
     lang |-> e.lang, name |-> e.name, color_identity |-> e.color_identity,
     price_usd |-> e.price_usd, location |-> e.location, src |-> i, unit |-> u]

\* CSV row i got a record: from the cache or from get_card
LookedUp(i) == lookup[i] \in {"cached", "fetched"}

\* the drafts of rows i.. of the file, `upto` units of row `final` at most
RECURSIVE DraftsFrom(_, _, _)
DraftsFrom(i, final, upto) ==
    IF i > Len(rows) \/ i > final THEN <<>>
    ELSE (IF LookedUp(i)
          THEN [u \in 1..(IF i = final THEN upto ELSE Quantity(i)) |-> ExpectedRow(i, u)]
          ELSE <<>>) \o DraftsFrom(i + 1, final, upto)

\* every draft of the run, whatever the chunk size
AllDrafts == DraftsFrom(1, Len(rows), IF rows = <<>> THEN 0 ELSE Quantity(Len(rows)))

OkCommits == {j \in 1..Len(commits) : commits[j].ok}

\* C1: in prefetch mode at most one _fetch_one is started per distinct key,
\* however many rows share it, and when no get_card call raises get_card is
\* called at most K times, K the number of distinct keys the rows refer to.
C1_OneLookupPerKey ==
    do_prefetch =>
        /\ \A k \in AllKeys : calls[k].started <= 1
        /\ \A i, j \in 1..Len(futures) : futures[i].key = futures[j].key => i = j
        /\ \A k \in AllKeys \ ReferencedKeys :
              calls[k].started = 0 /\ calls[k].returned = 0
        /\ NoCallRaised => SumReturned(AllKeys) <= Cardinality(ReferencedKeys)

\* two different rows share one key, the run is over and the key was looked up
C1_Witness ==
    /\ do_prefetch
    /\ pc = "done"
    /\ Len(rows) = 2
    /\ rows[1] # rows[2]
    /\ TrimmedKey(rows[1]) = TrimmedKey(rows[2])
    /\ Quantity(1) + Quantity(2) > 2
    /\ NoCallRaised
    /\ calls[TrimmedKey(rows[1])].returned = 1

\* the get_card calls the row loop made for key k (prefetch disabled)
OnDemandCalls(k) ==
    Cardinality({i \in RowIds : /\ lookup[i] \in {"fetched", "failed"}
                                /\ TrimmedKey(rows[i]) = k})

\* C2: with prefetch disabled process_append calls get_card at most once per
\* distinct key, whether the lookup returns or raises.
C2_OneCallPerKeyOnDemand ==
    ~do_prefetch => \A k \in AllKeys : OnDemandCalls(k) <= 1

\* C3: after a normal run a row with identity, quantity Q > 0 and a successful
\* lookup has exactly Q new rows in the table, all alike and as looked up; a
\* row with quantity 0 or without identity has none.
C3_QuantityExpansion ==
    pc = "done" =>
        \A i \in RowIds :
            /\ (NonBlankIdentity(rows[i]) /\ Quantity(i) > 0 /\ LookedUp(i)) =>
                  /\ Cardinality(RowsOf(i)) = Quantity(i)
                  /\ \A j \in RowsOf(i) :
                        Content(NewRows[j]) = ExpectedRow(i, NewRows[j].unit)
                  /\ {NewRows[j].unit : j \in RowsOf(i)} = 1..Quantity(i)
            /\ (Quantity(i) = 0 \/ ~HasIdentity(rows[i])) => RowsOf(i) = {}

\* a row of quantity 2 was stored, and a row without identity was not
C3_Witness ==
    /\ pc = "done"
    /\ Len(rows) = 2
    /\ \E i \in RowIds : Quantity(i) = 2 /\ Cardinality(RowsOf(i)) = 2
    /\ \E i \in RowIds : ~HasIdentity(rows[i]) /\ Quantity(i) > 0

\* C4: the rows a normal run persists are, in order and ids aside, the drafts
\* of the file, which do not depend on the chunk size: chunk_size = 1 and a
\* chunk_size above the number of drafts leave the same table.
C4_ChunkSizeIndependent ==
    pc = "done" =>
        /\ Contents(NewRows) = AllDrafts
        /\ SubSeq(db.rows, 1, Len(db0.rows)) = db0.rows

\* a run that committed a full chunk and then a partial one
C4_Witness ==
    /\ pc = "done"
    /\ chunk_size > 1
    /\ Len(commits) = 2
    /\ commits[2].n < chunk_size
    /\ Len(NewRows) = chunk_size + commits[2].n

\* C5: when add_entries fails none of the chunk's rows is in the table, the
\* error ends process_append and no later chunk is attempted.
C5_FailedChunkAborts ==
    \A c \in 1..Len(commits) :
        ~commits[c].ok =>
            /\ c = Len(commits)
            /\ pc = "aborted"
            /\ error = "store"
            /\ Len(batch) = commits[c].n
            /\ \A b \in 1..Len(batch) :
                  \A r \in 1..Len(db.rows) :
                      ~(db.rows[r].src = batch[b].src /\ db.rows[r].unit = batch[b].unit)
            /\ \A e \in 1..Len(log) : log[e].event # "appended"
            /\ ~ENABLED Next

\* a second chunk of two rows failed after a first was committed
C5_Witness ==
    /\ pc = "aborted"
    /\ Len(commits) = 2
    /\ commits[1].ok
    /\ Len(batch) = 2
    /\ idx <= Len(rows)

\* the drafts the run has produced so far: those of the rows before idx and
\* the units of row idx appended to the batch (the one whose commit failed
\* included)
DraftsSoFar ==
    IF idx > Len(rows) THEN AllDrafts
    ELSE DraftsFrom(1, idx, IF pc = "aborted" THEN unit + 1 ELSE unit)

\* C6: when a failed commit aborts the run the chunks committed before stay:
\* the table holds the rows it held before the run and then a prefix of the
\* drafts whose length is chunk_size times the number of committed chunks.
C6_CommittedChunksStay ==
    pc = "aborted" =>
        /\ SubSeq(db.rows, 1, Len(db0.rows)) = db0.rows
        /\ Cardinality(OkCommits) = Len(commits) - 1
        /\ Len(NewRows) = chunk_size * Cardinality(OkCommits)
        /\ Len(NewRows) <= Len(DraftsSoFar)
        /\ Contents(NewRows) = SubSeq(DraftsSoFar, 1, Len(NewRows))
        /\ Contents(NewRows) \o Contents(batch) = DraftsSoFar

\* the final flush of a partial chunk failed after a chunk of two was
\* committed to a table that already held a row
C6_Witness ==
    /\ pc = "aborted"
    /\ db0.rows # <<>>
    /\ chunk_size = 2
    /\ Cardinality(OkCommits) = 1
    /\ Len(batch) = 1
    /\ idx > Len(rows)

\* the keys handed to prefetch_cards, normalized
SubmittedKeys ==
    {<<strip(unique_keys[i][1]), strip(unique_keys[i][2]), strip(unique_keys[i][3])>> :
        i \in 1..Len(unique_keys)}

InPrefetch == pc \in {"start", "prefetch"}

\* C7: prefetch_cards returns only when every submitted key has resolved: no
\* task is queued, running or uncollected at the return, and the cache it
\* returns maps exactly the distinct normalized input keys, each to its record
\* or to None.
C7_ReturnsAfterAllResolved ==
    [][(do_prefetch /\ InPrefetch /\ pc' \in {"rows", "units", "done", "aborted"}) =>
          /\ \A i \in 1..Len(futures) : futures[i].st = "collected"
          /\ DOMAIN cache' = SubmittedKeys'
          /\ \A k \in DOMAIN cache' : cache'[k] \in {NoneJs, Card(k)}]_vars

\* prefetch_cards has returned a cache of two keys
C7_Witness ==
    /\ do_prefetch
    /\ pc = "rows"
    /\ idx = 1
    /\ Cardinality(DOMAIN cache) = 2
    /\ Cardinality(SubmittedKeys) = 2

C9_FailureIsPerKey ==
    /\ error \in {"none", "store"}
    /\ pc = "aborted" => commits # <<>> /\ ~commits[Len(commits)].ok
    /\ \A i \in 1..Len(futures) :
          /\ futures[i].st = "collected" =>
                /\ futures[i].key \in DOMAIN cache
                /\ cache[futures[i].key] = futures[i].js
          /\ futures[i].st \in {"done", "collected"} =>
                futures[i].js = IF calls[futures[i].key].returned > 0
                                THEN Card(futures[i].key) ELSE NoneJs
    /\ (do_prefetch /\ ~InPrefetch /\ pc # "nothing") =>
          \A k \in SubmittedKeys :
              /\ k \in DOMAIN cache
              /\ calls[k].returned > 0 => cache[k] = Card(k)
              /\ calls[k].returned = 0 =>
                    /\ cache[k] = NoneJs
                    /\ calls[k].raised
                    /\ calls[k].warned = 1

\* prefetch_cards returned a cache with one key failed and one key resolved
C9_Witness ==
    /\ do_prefetch
    /\ pc = "rows"
    /\ \E k \in DOMAIN cache : cache[k] = NoneJs
    /\ \E k \in DOMAIN cache : cache[k] # NoneJs /\ calls[k].raised

\* the warnings logged for CSV row i
WarningsOf(i) ==
    {e \in 1..Len(log) : log[e].level = "warning" /\ log[e].row = i}

\* CSV row i is behind the loop
Handled(i) == i < idx \/ pc = "done"

\* C10: in prefetch mode every row whose key is cached as None adds no row to
\* the table, is logged with exactly one warning, and the loop goes on to the
\* rows after it.
C10_CacheMissSkipsRow ==
    do_prefetch =>
        \A i \in RowIds :
            /\ lookup[i] = "miss" =>
                  /\ cache_get(cache, TrimmedKey(rows[i])) = NoneJs
                  /\ Handled(i)
            /\ (Handled(i) /\ cache_get(cache, TrimmedKey(rows[i])) = NoneJs) =>
                  /\ ~LookedUp(i)
                  /\ RowsOf(i) = {}
                  /\ \A b \in 1..Len(batch) : batch[b].src # i
                  /\ Cardinality(WarningsOf(i)) = 1
                  /\ pc = "aborted" => commits # <<>> /\ ~commits[Len(commits)].ok

\* the first row was skipped for its failed key and the second one was stored
C10_Witness ==
    /\ do_prefetch
    /\ pc = "done"
    /\ Len(rows) = 2
    /\ lookup[1] = "miss"
    /\ Quantity(1) > 1
    /\ LookedUp(2)
    /\ RowsOf(2) # {}

\* no _fetch_one was started and no get_card call was made for key k
NeverLookedUp(k) ==
    calls[k].started = 0 /\ calls[k].returned = 0 /\ ~calls[k].raised

\* another row of the file with identity and a positive quantity has the key
\* of row i
SharedWithPositive(i) ==
    \E j \in RowIds :
        /\ j # i
        /\ HasIdentity(rows[j])
        /\ Quantity(j) > 0
        /\ TrimmedKey(rows[j]) = TrimmedKey(rows[i])

\* C11: in an append run a row whose quantity is <= 0 has no row inserted and
\* no draft, and no lookup is made for its key unless another row with
\* identity and a positive quantity has that key.
C11_NonPositiveQuantityNotAttempted ==
    mode = "append" =>
        \A i \in RowIds :
            Quantity(i) <= 0 =>
                /\ RowsOf(i) = {}
                /\ \A b \in 1..Len(batch) : batch[b].src # i
                /\ lookup[i] = "none"
                /\ (HasIdentity(rows[i]) /\ ~SharedWithPositive(i)) =>
                      NeverLookedUp(TrimmedKey(rows[i]))

\* the set code or the collector number is missing, empty or only blanks
BlankIdentity(cr) == ~NonBlankIdentity(cr)

\* C12: in an append run a row whose set code or collector number is missing,
\* empty or only whitespace is skipped: no row and no draft for it, a warning
\* that it was skipped, and no lookup made for it.
C12_BlankIdentitySkipped ==
    mode = "append" =>
        \A i \in RowIds :
            BlankIdentity(rows[i]) =>
                /\ RowsOf(i) = {}
                /\ \A b \in 1..Len(batch) : batch[b].src # i
                /\ lookup[i] = "none"
                /\ Handled(i) =>
                      \E e \in WarningsOf(i) : log[e].event = "missing_identity"
                /\ (\A j \in RowIds :
                        TrimmedKey(rows[j]) = TrimmedKey(rows[i]) =>
                            BlankIdentity(rows[j])) =>
                      NeverLookedUp(TrimmedKey(rows[i]))

\* every row of the file has quantity 0 (an empty file included)
AllQuantitiesZero == \A i \in RowIds : Quantity(i) = 0

\* C13: when the quantities of the loaded rows sum to zero process_append and
\* process_remove return early: no lookup, no store write and no delete call
\* is made, and nothing more happens.
C13_NothingToDo ==
    /\ (AllQuantitiesZero /\ pc # "start") => pc = "nothing"
    /\ pc = "nothing" =>
          /\ AllQuantitiesZero
          /\ total_qty = 0
          /\ \A k \in AllKeys : NeverLookedUp(k)
          /\ futures = <<>>
          /\ cache = EmptyCache
          /\ commits = <<>>
          /\ deletes = <<>>
          /\ db = db0
          /\ log = <<>>
          /\ ~ENABLED Next

\* a remove run over a row of quantity 0 whose key is in the store
C13_Witness ==
    /\ mode = "remove"
    /\ pc = "nothing"
    /\ Len(rows) = 1
    /\ matching_rows(db, rows[1]) # {}

RECURSIVE QuantityBefore(_)
\* the quantities of the rows before row i, summed
QuantityBefore(i) == IF i <= 1 THEN 0 ELSE QuantityBefore(i - 1) + Quantity(i - 1)

\* the progress due: the quantity of every row behind the loop, and the units
\* of the current row that are done
ProgressDue == QuantityBefore(idx) + unit

\* C14: in an append run the progress counter stands at the summed quantity
\* of the rows handled so far, skipped or not, plus the units done of the
\* current row; it never decreases, never exceeds the total computed at load,
\* and is that total when the run completes normally.
C14_ProgressByQuantity ==
    /\ [](mode = "append" =>
            /\ pbar = ProgressDue
            /\ pc # "start" => pbar <= total_qty
            /\ pc = "done" => pbar = total_qty /\ pbar = QuantityBefore(Len(rows) + 1))
    /\ [][mode = "append" => pbar' >= pbar]_vars

\* a completed run that skipped a row without identity and a row whose lookup
\* failed, both of positive quantity
C14_Witness ==
    /\ mode = "append"
    /\ pc = "done"
    /\ Len(rows) = 2
    /\ \E i \in RowIds : ~HasIdentity(rows[i]) /\ Quantity(i) > 1
    /\ \E i \in RowIds : lookup[i] \in {"miss", "failed"} /\ Quantity(i) > 1
    /\ pbar = total_qty

\* the count of the summary 'Appended N total entries'
SummaryCount == log[Len(log)].n

\* C15: the count the final append summary reports is the number of rows the
\* run committed to the store, also when rows were skipped for a failed
\* lookup.
C15_SummaryCountsCommitted ==
    (mode = "append" /\ pc = "done") =>
        /\ log # <<>>
        /\ log[Len(log)].event = "appended"
        /\ SummaryCount = Len(NewRows)

\* the remove_first_matching calls made for CSV row i, as positions in deletes
DeletesOf(i) == {c \in 1..Len(deletes) : deletes[c].row = i}

\* those that deleted a row
RemovedFor(i) == {c \in DeletesOf(i) : deletes[c].found}

Min(a, b) == IF a <= b THEN a ELSE b

\* process_remove is past CSV row i
Removed(i) == i < idx \/ pc = "removed"

\* C16: in remove mode a row with identity and quantity Q > 0, with M stored
\* rows matching its key when its turn comes, has exactly min(Q, M) rows
\* deleted, and after the first call that finds no match no further call is
\* made for it; rows that are skipped make no call.
C16_RemoveStopsAtNoMatch ==
    mode = "remove" =>
        /\ \A i \in RowIds :
              /\ (Removed(i) /\ NonBlankIdentity(rows[i]) /\ Quantity(i) > 0) =>
                    /\ Cardinality(RemovedFor(i)) = Min(Quantity(i), matched[i])
                    /\ Cardinality(DeletesOf(i)) = Min(Quantity(i), matched[i] + 1)
              /\ (~HasIdentity(rows[i]) \/ Quantity(i) = 0) => DeletesOf(i) = {}
              /\ \A c \in DeletesOf(i) :
                    ~deletes[c].found => \A e \in DeletesOf(i) : e <= c
        /\ \A c, e \in 1..Len(deletes) : c < e => deletes[c].row <= deletes[e].row
        /\ Len(db.rows) = Len(db0.rows) - removed_total
        /\ removed_total = Cardinality({c \in 1..Len(deletes) : deletes[c].found})

\* three units asked of a key with two stored rows: two deleted, the third
\* call found nothing and was logged as the stop
C16_Witness ==
    /\ mode = "remove"
    /\ pc = "removed"
    /\ \E i \in RowIds :
          /\ Quantity(i) = 3
          /\ matched[i] = 2
          /\ Cardinality(RemovedFor(i)) = 2
          /\ Cardinality(DeletesOf(i)) = 3
          /\ \E e \in 1..Len(log) :
                log[e] = Event("info", "stopped", i, 2)

\* a stored row matches (set_code, collector_number, lang): the first two are
\* equal, and the lang is equal or, for an argument None or "", NULL or empty
Matches(r, a) ==
    /\ r.set_code = a[1]
    /\ r.collector_number = a[2]
    /\ IF a[3] \in {None, <<>>} THEN r.lang \in {None, <<>>} ELSE r.lang = a[3]

\* the positions of the rows of table d that match
MatchesIn(d, a) == {i \in 1..Len(d.rows) : Matches(d.rows[i], a)}

\* table d without the row at position i
Without(d, i) == SubSeq(d.rows, 1, i - 1) \o SubSeq(d.rows, i + 1, Len(d.rows))

\* C17: a remove_first_matching call deletes exactly the matching row of the
\* lowest id and returns that id, leaving every other row as it was; when no
\* row matches it returns None and leaves the table as it was.
C17_RemovesLowestIdMatch ==
    [][deletes' # deletes =>
          LET call == deletes'[Len(deletes')]
              hits == MatchesIn(db, call.args)
          IN  /\ Len(deletes') = Len(deletes) + 1
              /\ IF hits = {}
                 THEN ~call.found /\ db' = db
                 ELSE /\ call.found
                      /\ \E i \in hits :
                            /\ \A j \in hits : db.rows[i].id <= db.rows[j].id
                            /\ call.id = db.rows[i].id
                            /\ db'.rows = Without(db, i)]_vars

\* the first call of a run had an empty lang argument and deleted id 3, a row
\* with a NULL lang that is neither the first row of the table nor its only
\* match
C17_Witness ==
    /\ mode = "remove"
    /\ Len(db0.rows) = 6
    /\ Len(deletes) = 1
    /\ deletes[1].args[3] = <<>>
    /\ deletes[1].found
    /\ deletes[1].id = 3
    /\ Len(db.rows) = 5
    /\ Cardinality(MatchesIn(db, deletes[1].args)) = 2

\* thread t is in the read-sleep-update section of wait()
InSection(t) == thr[t].pc \in {"read", "sleep", "store", "release"}

C19_RowOrderPreserved ==
    mode = "append" =>
        /\ \A j, k \in 1..Len(NewRows) :
              NewRows[j].src < NewRows[k].src =>
                  j < k /\ NewRows[j].id < NewRows[k].id
        /\ \A j, k \in 1..Len(db.rows) : j < k => db.rows[j].id < db.rows[k].id
        /\ \A b, c \in 1..Len(batch) : b < c => batch[b].src <= batch[c].src
        /\ pc # "aborted" =>
              \A j \in 1..Len(NewRows) :
                  \A b \in 1..Len(batch) : NewRows[j].src <= batch[b].src

\* a completed run of two rows that were committed in one chunk, and a third
\* row of the table from the final flush
C19_Witness ==
    /\ mode = "append"
    /\ pc = "done"
    /\ chunk_size = 2
    /\ Len(NewRows) = 3
    /\ NewRows[1].src = 1
    /\ NewRows[2].src = 2
    /\ NewRows[3].src = 2

\* C20: an append run only inserts: every row the store held before the run
\* is still there, with its id and every field as they were, whether the run
\* ends normally or is aborted.
C20_AppendOnlyInserts ==
    mode = "append" =>
        /\ Len(db.rows) >= Len(db0.rows)
        /\ \A i \in 1..Len(db0.rows) :
              /\ \E j \in 1..Len(db.rows) : db.rows[j] = db0.rows[i]
              /\ Cardinality({j \in 1..Len(db.rows) :
                                 db.rows[j].id = db0.rows[i].id}) = 1
        /\ db.seq >= db0.seq

\* an aborted run that had committed a row of the printing the store already
\* held
C20_Witness ==
    /\ mode = "append"
    /\ pc = "aborted"
    /\ db0.rows # <<>>
    /\ Len(NewRows) >= 1
    /\ NewRows[1].set_code = db0.rows[1].set_code
    /\ NewRows[1].collector_number = db0.rows[1].collector_number
    /\ NewRows[1].lang = db0.rows[1].lang
    /\ NewRows[1].price_usd # db0.rows[1].price_usd

\* the finish of CSV row i as the claim reads it: trimmed and lower-cased
FinishOf(i) ==
    IF rows[i].foil = None THEN <<>> ELSE lower(strip(rows[i].foil))

\* the price string of the record `js` that row i's finish selects
SelectedPrice(i, js) ==
    IF FinishOf(i) = <<"f", "o", "i", "l">> THEN js.prices.usd_foil
    ELSE IF FinishOf(i) = <<"e", "t", "c", "h", "e", "d">> THEN js.prices.usd_etched
    ELSE js.prices.usd

\* the number a price string of the records stands for; every other string of
\* the records is missing, empty or no number
Amount(s) ==
    IF s = <<"1", ".", "5">> THEN Price(15)
    ELSE IF s = <<" ", "7">> THEN Price(70)
    ELSE IF s = <<"2", ".", "0">> THEN Price(20)
    ELSE NullPrice

\* rows i and j of the file share a key and differ in finish
SameKeyOtherFinish(i, j) ==
    /\ TrimmedKey(rows[i]) = TrimmedKey(rows[j])
    /\ FinishOf(i) # FinishOf(j)

\* C22: every row the append run stores for CSV row i carries the price that
\* the row's trimmed, lower-cased finish selects from the record of the row's
\* key ("foil" the foil price, "etched" the etched price, anything else the
\* normal price), and NULL when that price is missing, empty or no number;
\* rows that share a key and differ in finish read the same record.
C22_PriceByFinish ==
    mode = "append" =>
        /\ \A j \in 1..Len(NewRows) :
              LET i == NewRows[j].src IN
              NewRows[j].price_usd = Amount(SelectedPrice(i, Card(TrimmedKey(rows[i]))))
        /\ \A j \in 1..Len(batch) :
              LET i == batch[j].src IN
              batch[j].price_usd = Amount(SelectedPrice(i, Card(TrimmedKey(rows[i]))))

\* two rows with one key and different finishes are stored with different
\* prices, one of them a foil price, and a row whose selected price is no
\* number is stored with NULL
C22_Witness ==
    /\ mode = "append"
    /\ pc = "done"
    /\ \E a, b \in 1..Len(NewRows) :
          /\ SameKeyOtherFinish(NewRows[a].src, NewRows[b].src)
          /\ NewRows[a].price_usd = Price(15)
          /\ NewRows[b].price_usd = Price(70)

\* a row whose selected price is missing or no number is stored with NULL
C22_WitnessNull ==
    /\ mode = "append"
    /\ \E a \in 1..Len(NewRows) :
          /\ SelectedPrice(NewRows[a].src, Card(TrimmedKey(rows[NewRows[a].src]))) = <<"x">>
          /\ NewRows[a].price_usd = NullPrice

\* The quantity the claim gives for each quantity field of the CSV files: 1
\* for a missing, blank or non-numeric one, else the floor of the number, and
\* 0 for a negative one.  An infinity has no floor and counts as non-numeric.
\* -1 marks a field no file of the model holds.
ExpectedQuantity(v) ==
    IF v \in {None, <<" ">>, <<"x">>, <<"-", "I", "n", "f">>} THEN 1
    ELSE IF v \in {<<"0">>, <<"-", "1">>, <<"-", "1", ".", "5">>} THEN 0
    ELSE IF v \in {<<"1", ".", "9">>} THEN 1
    ELSE IF v \in {<<"2">>, <<" ", "2", ".", "7">>} THEN 2
    ELSE IF v = <<"3">> THEN 3
    ELSE 0 - 1

RECURSIVE ExpectedTotal(_)
ExpectedTotal(n) ==
    IF n = 0 THEN 0 ELSE ExpectedTotal(n - 1) + ExpectedQuantity(rows[n].qty)

\* the drafts made for CSV row i, stored or still in the batch
DraftCount(i) ==
    Cardinality(RowsOf(i)) + Cardinality({j \in 1..Len(batch) : batch[j].src = i})

StoreWritten == commits # <<>>

\* C24: in prefetch mode every lookup comes before every store write: when
\* db.add_entries is called every submitted key has its result in the cache
\* and prefetch_cards has returned, and from the first db.add_entries call on
\* no get_card call is made.
C24_LookupsBeforeWrites ==
    /\ [](( mode = "append" /\ do_prefetch /\ StoreWritten) =>
            /\ ~InPrefetch
            /\ futures = <<>>
            /\ DOMAIN cache = SubmittedKeys)
    /\ [][(mode = "append" /\ do_prefetch) =>
            /\ commits' # commits =>
                  /\ ~InPrefetch
                  /\ DOMAIN cache = SubmittedKeys
                  /\ calls' = calls
            /\ StoreWritten => calls' = calls]_vars

\* a prefetch run has looked up two keys, one of them with a call that
\* raised, and has then written to the store twice
C24_Witness ==
    /\ mode = "append"
    /\ do_prefetch
    /\ pc = "done"
    /\ Len(commits) = 2
    /\ Cardinality(SubmittedKeys) = 2
    /\ \E k \in SubmittedKeys : calls[k].raised
    /\ \A k \in SubmittedKeys : calls[k].started = 1

RECURSIVE CommittedRows(_)
CommittedRows(n) == IF n = 0 THEN 0 ELSE CommittedRows(n - 1) + commits[n].n

\* C25: the batch buffer of an append run never holds more than chunk_size
\* drafts, and fewer whenever a unit is done; a unit commits and
\* clears it exactly when it brings its length to chunk_size; every chunk
\* handed to db.add_entries has at most chunk_size rows and every one but the
\* last exactly chunk_size; a shorter one is the remainder, handed over once
\* after the last row; and the buffer is empty when the run completes.
C25_BatchBounded ==
    /\ [](mode = "append" =>
            /\ Len(batch) <= chunk_size
            /\ pc # "aborted" => Len(batch) < chunk_size
            /\ \A c \in 1..Len(commits) :
                  /\ commits[c].n \in 1..chunk_size
                  /\ c < Len(commits) => commits[c].n = chunk_size
                  /\ commits[c].n < chunk_size =>
                        (idx > Len(rows) /\ pc \in {"done", "aborted"})
            /\ pc = "done" =>
                  /\ batch = <<>>
                  /\ CommittedRows(Len(commits)) = Len(AllDrafts)
                  /\ Len(commits) = (Len(AllDrafts) + chunk_size - 1) \div chunk_size)
    /\ [][(mode = "append" /\ pc = "units") =>
            /\ commits' # commits <=> Len(batch) + 1 = chunk_size
            /\ (commits' # commits /\ pc' # "aborted") => batch' = <<>>
            /\ commits' = commits => batch' # <<>>]_vars

\* a run with chunk_size 2 and three drafts: a full chunk was committed in the
\* row loop and the remainder of one draft after the last row
C25_Witness ==
    /\ mode = "append"
    /\ pc = "done"
    /\ chunk_size = 2
    /\ Len(AllDrafts) = 3
    /\ Len(commits) = 2
    /\ commits[1].n = 2
    /\ commits[2].n = 1
    /\ batch = <<>>

\* C26: the backoff of _fetch_one grows linearly: after the k-th call that
\* raised, k = 1..max_retries, the worker sleeps backoff * k and then makes
\* retry k; after the call that raised with the retries used up, and after a
\* call that returned, it does not sleep.
C26_LinearBackoff ==
    /\ [](\A i \in 1..Len(futures) :
            futures[i].st = "running" =>
                /\ futures[i].sleep = futures[i].ncalls
                /\ futures[i].sleep \in 0..max_retries)
    /\ [][\A i \in 1..Len(futures) :
            (pc = "prefetch" /\ pc' = "prefetch" /\ futures[i].st = "running"
               /\ futures'[i] # futures[i]) =>
                LET t == futures[i]
                    u == futures'[i]
                    k == t.ncalls + 1
                    raised == calls'[t.key].returned = calls[t.key].returned
                IN  IF raised /\ k <= max_retries
                    THEN u.st = "running" /\ u.sleep = k
                    ELSE u.st = "done" /\ u.sleep = 0]_vars

\* one worker has slept backoff * max_retries before its last retry, and
\* another has given its key up without a further sleep
C26_Witness ==
    /\ pc = "prefetch"
    /\ \E i, j \in 1..Len(futures) :
          /\ futures[i].st = "running"
          /\ futures[i].sleep = max_retries
          /\ futures[j].st = "done"
          /\ futures[j].js = NoneJs
          /\ futures[j].sleep = 0
          /\ calls[futures[j].key].warned = 1

\* the requests of the call before the last one
Earlier == SubSeq(requests, 1, Len(requests) - 1)

\* the get_card call has ended
Ended == outcome \in {"returned", "returned_none", "raised"}

\* what C27 says of a get_card call, part by part
C27_Retries ==
    mode = "get" =>
        /\ Len(requests) <= self_max_retries
        /\ \A i \in 1..Len(Earlier) : Earlier[i] # 200
        /\ outcome = "returned" <=> (requests # <<>> /\ requests[Len(requests)] = 200)
        /\ \A i \in 1..Len(requests) :
              (requests[i] \in {404, 501}) => (i = Len(requests) /\ outcome = "raised")
        /\ (Ended /\ requests # <<>> /\ \A i \in 1..Len(requests) : retryable(requests[i])) =>
              (outcome = "raised" /\ Len(requests) = self_max_retries)
        /\ \A i \in 1..Len(Earlier) : ~raise_for_status(Earlier[i]) \/ retryable(Earlier[i])

\* C27 (as claimed): _get makes at most max_retries requests, returns the
\* body on the first status 200, raises after one request on a non-retryable
\* 4xx, raises after max_retries requests when every response is retryable,
\* goes on only after a retryable status, and, for max_retries >= 1, a call
\* to get_card ends by returning a record or by raising.
C27_ReturnsRecordOrRaises ==
    /\ C27_Retries
    /\ (mode = "get" /\ self_max_retries >= 1) =>
          /\ outcome \in {"running", "returned", "raised"}
          /\ \A i \in 1..Len(Earlier) : retryable(Earlier[i])

\* a get_card call whose last response was 204 has returned None
C27_ReturnedNone ==
    /\ mode = "get"
    /\ self_max_retries >= 1
    /\ outcome = "returned_none"
    /\ requests[Len(requests)] = 204

\* the fields of a stored row that run_update is said to leave alone
Identity(r) ==
    [id |-> r.id, set_code |-> r.set_code, collector_number |-> r.collector_number,
     lang |-> r.lang, name |-> r.name, color_identity |-> r.color_identity]

\* C21: run_update inserts no row, deletes none and changes no field but
\* price_usd and location: in every state of a run the table holds the rows
\* it held at the start, in the same number and under the same ids, each
\* with its set_code, collector_number, lang, name and color_identity.
C21_OnlyPriceAndLocation ==
    mode = "update" =>
        /\ Len(db.rows) = Len(db0.rows)
        /\ db.seq = db0.seq
        /\ \A j \in 1..Len(db0.rows) : Identity(db.rows[j]) = Identity(db0.rows[j])

\* a run has changed the price and the location of two rows, in two batches
C21_Witness ==
    /\ mode = "update"
    /\ pc = "done"
    /\ Len(applied) = 2
    /\ Len(db0.rows) = 2
    /\ \A j \in 1..2 :
          /\ db.rows[j].price_usd # db0.rows[j].price_usd
          /\ db.rows[j].location # db0.rows[j].location

\* a price as the comparison counts it, in tenths: a null price is 0
Counted(p) == IF p.null THEN 0 ELSE p.tenths

\* the rows run_update has been through
Checked == 1..Len(fetched)

\* get_card returned for row j, and the old price and the price selected from
\* what it returned lie on opposite sides of 5
Crossed(j) ==
    /\ j \in Checked
    /\ fetched[j].ok
    /\ LET old == Counted(db0.rows[j].price_usd)
           new == Counted(fetched[j].new)
       IN  \/ old >= 50 /\ new < 50
           \/ old < 50 /\ new >= 50

\* the stored row j is not what it was when the run started
Modified(j) == db.rows[j] # db0.rows[j]

\* the ids in a list of reports or of updates
IdsOf(q) == {q[i].id : i \in 1..Len(q)}

C29_CrossedRowsUpdated ==
    (mode = "update" /\ pc = "done" /\ ~dry_run) =>
        /\ updates = <<>>
        /\ \A j \in 1..Len(db0.rows) :
              Crossed(j) =>
                  /\ db.rows[j].price_usd = fetched[j].new
                  /\ db.rows[j].location = "bulk"

\* with chunk_size 2 the one update of the run, of a row that fell from 12.0
\* to 4.9, went out in the final batch
C29_Witness ==
    /\ mode = "update"
    /\ pc = "done"
    /\ ~dry_run
    /\ chunk_size = 2
    /\ applied = <<[n |-> 1, ok |-> TRUE]>>
    /\ \E j \in 1..Len(db0.rows) :
          /\ db0.rows[j].price_usd = Price(120)
          /\ db0.rows[j].location = "binder"
          /\ db.rows[j].price_usd = Price(49)
          /\ db.rows[j].location = "bulk"

\* C30: with dry_run set the store is never changed: in every state of the
\* run, for every chunk_size and whatever the lookups return, every stored
\* row has the price_usd and the location it had, and _apply_update_batch is
\* not called.
C30_DryRunChangesNothing ==
    (mode = "update" /\ dry_run) =>
        /\ applied = <<>>
        /\ Len(db.rows) = Len(db0.rows)
        /\ \A j \in 1..Len(db0.rows) :
              /\ db.rows[j].price_usd = db0.rows[j].price_usd
              /\ db.rows[j].location = db0.rows[j].location

\* a dry run has completed with two rows that crossed the threshold, one in
\* each direction, both reported and none applied
C30_Witness ==
    /\ mode = "update"
    /\ dry_run
    /\ pc = "done"
    /\ Len(downgraded_rows) = 1
    /\ Len(upgraded_rows) = 1
    /\ db = db0

\* C31: prefetch_cards terminates: once it is called, with any number of
\* keys, any number of workers >= 1 and whichever get_card calls raise, every
\* task it submits ends with a record or with None, and it returns a cache
\* that holds every submitted key.
C31_PrefetchTerminates ==
    /\ (pc = "prefetch") ~> (pc = "rows" /\ DOMAIN cache = SubmittedKeys)
    /\ \A i \in 1..MaxRows :
          (pc = "prefetch" /\ i <= Len(futures)) ~>
              (pc = "rows" \/ (/\ i <= Len(futures)
                               /\ futures[i].st \in {"done", "collected"}
                               /\ futures[i].js \in {NoneJs, Card(futures[i].key)}))

\* prefetch_cards has returned after one key was given up, with every call
\* for it raising, and another key got its record on a retry
C31_Witness ==
    /\ do_prefetch
    /\ pc = "rows"
    /\ prefetch_workers >= 1
    /\ \E k, m \in DOMAIN cache :
          /\ cache[k] = NoneJs
          /\ calls[k].warned = 1
          /\ calls[k].returned = 0
          /\ cache[m] = Card(m)
          /\ calls[m].raised

\* ---- C32
\* the ids the run's remove_first_matching calls returned

DeletedIds ==
    {deletes[e].id : e \in {x \in 1..Len(deletes) : deletes[x].found /\ deletes[x].id # 0}}

\* the entries of the final summary line "Removed N total entries."
Summaries ==
    {e \in 1..Len(log) : log[e].level = "info" /\ log[e].event = "removed_total"}

\* C32: in a removal run the running count is the number of rows gone from the
\* store, the rows gone are the ones the delete calls returned and no other
\* row changed; the summary line is written once, last, with that count; and
\* the progress counter never exceeds the total quantity computed at load.
C32_SummaryCountsDeleted ==
    mode = "remove" =>
        /\ removed_total = Len(db0.rows) - Len(db.rows)
        /\ removed_total = Cardinality(DeletedIds)
        /\ db.rows = SelectSeq(db0.rows, LAMBDA r : r.id \notin DeletedIds)
        /\ pc = "removed" =>
              /\ Summaries = {Len(log)}
              /\ log[Len(log)].n = Len(db0.rows) - Len(db.rows)
        /\ pc # "removed" => Summaries = {}
        /\ pc # "start" => pbar <= total_qty

\* a finished run that deleted two rows of a larger store and stopped a row
\* early for want of a further match, so that the counter ended below the total
C32_Witness ==
    /\ mode = "remove"
    /\ pc = "removed"
    /\ removed_total = 2
    /\ Len(db0.rows) - Len(db.rows) = 2
    /\ Len(db.rows) > 0
    /\ log[Len(log)] = Event("info", "removed_total", 0, 2)
    /\ \E e \in 1..Len(log) : log[e].event = "stopped"
    /\ 0 < pbar /\ pbar < total_qty

====
